---- MODULE Spec2Model ----
(***************************************************************************)
(* The statechart interpreter of xstate (core/src/stateUtils.ts, State,    *)
(* StateNode): candidate selection, transition selection, exit and entry   *)
(* sets, the microstep, the resolution of actions and the macrostep loop.  *)
(*                                                                         *)
(* A state node is identified by its document order plus one (the root is  *)
(* node 1); a JavaScript Set or array of nodes is a sequence without       *)
(* duplicates in insertion order; an event type is the sequence of its     *)
(* dot-separated tokens ("a.b.*" is <<"a", "b", "*">>, "" is <<"">>).      *)
(***************************************************************************)
EXTENDS Integers, Sequences, FiniteSets, TLC

VARIABLES
  mach,     \* the machine under execution (createMachine's result)
  pc,       \* "init": constructed; "loop": inside macrostep's while; "idle"
  st,       \* the State object held by maybeNextState / returned last
  queue,    \* the array _internalQueue that macrostep drains
  alias,    \* TRUE when st._internalQueue is that very array
  ms,       \* record of the last microstep (inputs, sets, action lists)
  macroActions, \* concatenation of the resolved actions of this macrostep's microsteps
  build,    \* a machine under construction: its config, id map and nodes
  actor,    \* the interpreter of mach: status, state, mailbox, timers, children
  hook      \* a component using useReactEffectActions: its refs and its phase

vars == <<mach, pc, st, queue, alias, ms, macroActions, build, actor, hook>>

\* Largest context value from which an external event is still accepted.
MaxCtx == 3

(***************************************************************************)
(* Sequences used as ordered sets                                          *)
(***************************************************************************)
Range(s) == {s[i] : i \in 1..Len(s)}

InSeq(x, s) == \E i \in 1..Len(s) : s[i] = x

\* Set.prototype.add: appends unless present
SeqAdd(s, x) == IF InSeq(x, s) THEN s ELSE Append(s, x)

RECURSIVE SeqAddAll(_, _)
SeqAddAll(s, xs) ==
  IF xs = <<>> THEN s ELSE SeqAddAll(SeqAdd(s, Head(xs)), Tail(xs))

RECURSIVE Flatten(_)
Flatten(ss) == IF ss = <<>> THEN <<>> ELSE Head(ss) \o Flatten(Tail(ss))

RECURSIVE Reverse(_)
Reverse(s) == IF s = <<>> THEN <<>> ELSE Append(Reverse(Tail(s)), Head(s))

Last(s) == s[Len(s)]

RECURSIVE SortAscSet(_)
SortAscSet(S) ==
  IF S = {} THEN <<>>
  ELSE LET x == CHOOSE y \in S : \A z \in S : y <= z
       IN <<x>> \o SortAscSet(S \ {x})

(***************************************************************************)
(* Descriptors: guards, actions, transitions, state nodes                  *)
(***************************************************************************)
NULL_EVENT == <<"">>
WILDCARD == <<"*">>
initEvent == <<"xstate", "init">>

NoGuard == [type |-> "none", arg |-> 0]
G(type, arg) == [type |-> type, arg |-> arg]

Act(type, name, to, arg) ==
  [type |-> type, name |-> name, to |-> to, arg |-> arg, sub |-> <<>>]
Custom(n) == Act("custom", <<n>>, "", 0)
Raise(ev) == Act("raise", ev, "", 0)
SendTo(ev, to) == Act("send", ev, to, 0)
Cancel(id) == Act("cancel", <<id>>, "", 0)
AssignInc == Act("assign", <<"inc">>, "", 1)
AssignSet(v) == Act("assign", <<"set">>, "", v)
AssignThrow == Act("assign", <<"throw">>, "", 0)
Stop(id) == Act("stop", <<id>>, id, 0)
Invoke(id) == Act("invoke", <<id>>, id, 0)
Branch(g, actions) == [guard |-> g, actions |-> actions]
Choose(branches) ==
  [type |-> "choose", name |-> <<"choose">>, to |-> "", arg |-> 0, sub |-> branches]
Pure(branches) ==
  [type |-> "pure", name |-> <<"pure">>, to |-> "", arg |-> 0, sub |-> branches]

Tr(source, eventType, guard, actions, target, internal) ==
  [source |-> source, eventType |-> eventType, guard |-> guard,
   actions |-> actions, target |-> target, internal |-> internal]

NoInitial == [target |-> <<>>, actions |-> <<>>]

\* A state node as its constructor leaves it; parent 0 is "no parent".
N(key, type, parent, states, initialTarget) ==
  [key |-> key, cid |-> "", type |-> type, parent |-> parent, states |-> states,
   initial |-> [target |-> initialTarget, actions |-> <<>>],
   entry |-> <<>>, exit |-> <<>>, invoke |-> <<>>, transitions |-> <<>>,
   history |-> "none", target |-> <<>>]

Leaf(key, parent) == N(key, "atomic", parent, <<>>, <<>>)

Final(key, parent) == N(key, "final", parent, <<>>, <<>>)

On(source, name, target) == Tr(source, <<name>>, NoGuard, <<>>, <<target>>, FALSE)

Always(source, guard, target) ==
  Tr(source, NULL_EVENT, guard, <<>>, <<target>>, FALSE)

(***************************************************************************)
(* The machines: the machines of the repository's tests, and variants of   *)
(* them that raise several events or nest states more deeply.              *)
(***************************************************************************)

\* part_001:458-486, with a second event that raises two events at once
RaisedNodes ==
  << N("raised", "compound", 0, <<2, 3, 4, 5, 6>>, <<2>>),
     [Leaf("a", 1) EXCEPT !.transitions =
        << On(2, "FOO", 3),
           Tr(2, <<"FOO2">>, NoGuard, <<Raise(<<"X">>), Raise(<<"BAR">>)>>, <<>>, TRUE),
           On(2, "X", 3) >>],
     [Leaf("b", 1) EXCEPT !.entry = <<Raise(<<"BAR">>)>>,
                          !.transitions = <<On(3, "BAR", 5), Always(3, NoGuard, 4)>>],
     [Leaf("c", 1) EXCEPT !.transitions = <<On(4, "BAR", 6)>>],
     Leaf("d", 1),
     Leaf("e", 1) >>

\* part_001:311-360
AutoNodes ==
  << N("auto", "parallel", 0, <<2, 5, 8>>, <<>>),
     N("A", "compound", 1, <<3, 4>>, <<3>>),
     [Leaf("A1", 2) EXCEPT !.transitions = <<On(3, "A", 4)>>],
     Leaf("A2", 2),
     N("B", "compound", 1, <<6, 7>>, <<6>>),
     [Leaf("B1", 5) EXCEPT !.transitions = <<Always(6, G("in", 4), 7)>>],
     Leaf("B2", 5),
     N("C", "compound", 1, <<9, 10>>, <<9>>),
     [Leaf("C1", 8) EXCEPT !.transitions = <<Always(9, G("in", 4), 10)>>],
     Leaf("C2", 8) >>

\* part_001:604-639
RootTransientNodes ==
  << [N("machine", "compound", 0, <<2, 3>>, <<2>>) EXCEPT
        !.cid = "machine",
        !.transitions = <<Tr(1, NULL_EVENT, G("ctxGt", 0), <<>>, <<3>>, TRUE)>>],
     [Leaf("first", 1) EXCEPT !.transitions =
        <<Tr(2, <<"ADD">>, NoGuard, <<AssignInc>>, <<>>, TRUE)>>],
     Final("success", 1) >>

\* part_001:96-127
CarryNodes ==
  << N("carry", "compound", 0, <<2, 3, 4>>, <<2>>),
     [Leaf("A", 1) EXCEPT !.exit = <<Custom("exit_A")>>,
                          !.transitions =
        <<Tr(2, <<"TIMER">>, NoGuard, <<Custom("timer")>>, <<3>>, FALSE)>>],
     [Leaf("T", 1) EXCEPT !.transitions = <<Always(3, NoGuard, 4)>>],
     [Leaf("B", 1) EXCEPT !.entry = <<Custom("enter_B")>>,
                          !.transitions = <<On(4, "RESET", 2)>>] >>

\* test/event.test.ts:132-175, the guards reading the context
AuthNodes ==
  << N("auth", "compound", 0, <<2>>, <<2>>),
     [N("passwordField", "compound", 1, <<3, 4, 5>>, <<3>>) EXCEPT !.transitions =
        << Tr(2, <<"changePassword">>, G("ctxGt", 1), <<Custom("toInvalid")>>, <<5>>, TRUE),
           Tr(2, <<"changePassword">>, NoGuard, <<Custom("toValid")>>, <<4>>, TRUE) >>],
     [Leaf("hidden", 2) EXCEPT !.transitions =
        <<Tr(3, <<"changePassword">>, G("ctxLt", 1), <<AssignInc>>, <<>>, TRUE)>>],
     [Leaf("valid", 2) EXCEPT !.transitions =
        <<Tr(4, <<"grow">>, G("ctxLt", 2), <<AssignInc>>, <<>>, TRUE)>>],
     Leaf("invalid", 2) >>

\* part_001:32-51; context 0: no data, 1: status Y, 2: status X, 3: other
UpdateNodes ==
  << N("update", "compound", 0, <<2, 3, 4, 5, 6, 7>>, <<2>>),
     [Leaf("G", 1) EXCEPT !.transitions = <<On(2, "UPDATE_BUTTON_CLICKED", 3)>>],
     [Leaf("E", 1) EXCEPT !.transitions =
        << Always(3, G("ctxEq", 0), 4), Always(3, G("ctxEq", 1), 5),
           Always(3, G("ctxEq", 2), 6), Always(3, NoGuard, 7) >>],
     Leaf("D", 1),
     Leaf("B", 1),
     Leaf("C", 1),
     Leaf("F", 1) >>

\* part_001:506-564 and the event descriptors of stateUtils.ts:282-354
WildNodes ==
  << N("wild", "compound", 0, <<2, 3, 4, 5, 6, 7, 8, 9>>, <<2>>),
     [Leaf("a", 1) EXCEPT !.transitions = <<On(2, "FOO", 3), On(2, "TOK", 4)>>],
     [Leaf("b", 1) EXCEPT !.transitions = <<On(3, "*", 5)>>],
     [Leaf("s", 1) EXCEPT !.transitions =
        << Tr(4, <<"a", "b">>, NoGuard, <<>>, <<6>>, FALSE),
           Tr(4, <<"a", "b", "*">>, NoGuard, <<>>, <<7>>, FALSE),
           Tr(4, <<"a", "*", "b">>, NoGuard, <<>>, <<5>>, FALSE),
           Tr(4, <<"*", "*">>, NoGuard, <<>>, <<5>>, FALSE),
           Tr(4, <<"a", "*">>, NoGuard, <<>>, <<8>>, FALSE),
           Tr(4, <<"*">>, NoGuard, <<>>, <<9>>, FALSE) >>],
     Leaf("fail", 1),
     [Leaf("x1", 1) EXCEPT !.transitions = <<On(6, "BACK", 4)>>],
     [Leaf("x2", 1) EXCEPT !.transitions = <<On(7, "BACK", 4)>>],
     [Leaf("x3", 1) EXCEPT !.transitions = <<On(8, "BACK", 4)>>],
     [Leaf("x4", 1) EXCEPT !.transitions = <<On(9, "BACK", 4)>>] >>

\* a machine with scxml: true, whose descriptors match by token prefix
ScxmlNodes ==
  << N("scxml", "compound", 0, <<2, 3, 4>>, <<2>>),
     [Leaf("s", 1) EXCEPT !.transitions =
        << Tr(2, <<"a", "b">>, NoGuard, <<>>, <<3>>, FALSE),
           Tr(2, <<"a">>, NoGuard, <<>>, <<4>>, FALSE) >>],
     [Leaf("x1", 1) EXCEPT !.transitions = <<On(3, "BACK", 2)>>],
     [Leaf("x2", 1) EXCEPT !.transitions = <<On(4, "BACK", 2)>>] >>

\* part_002:1056-1080
InvokeNodes ==
  << [N("parent", "compound", 0, <<2, 3, 4>>, <<2>>) EXCEPT !.cid = "parent"],
     [Leaf("one", 1) EXCEPT !.invoke = <<"foo-child">>,
                            !.entry = <<SendTo(<<"NEXT">>, "foo-child")>>,
                            !.exit = <<Custom("exit_one")>>,
                            !.transitions =
        << Tr(2, <<"NEXT">>, NoGuard, <<Custom("next")>>, <<4>>, FALSE),
           Tr(2, <<"AGAIN">>, NoGuard, <<Custom("again")>>, <<2>>, FALSE),
           Tr(2, <<"SWAP">>, NoGuard, <<Custom("swap")>>, <<3>>, FALSE) >>],
     [Leaf("other", 1) EXCEPT !.invoke = <<"bar-child">>,
                              !.entry = <<Custom("enter_other")>>,
                              !.transitions = <<On(3, "SWAP", 2)>>],
     Final("two", 1) >>

\* part_002:1180-1199, with two states and two more transitions of the root:
\* JUMP with target 'b' (external) and INNER with target '.b' (internal)
RootInvokeNodes ==
  << [N("rootinvoke", "compound", 0, <<2, 3>>, <<2>>) EXCEPT
        !.invoke = <<"root-child">>,
        !.entry = <<Custom("root_entry")>>,
        !.exit = <<Custom("root_exit")>>,
        !.transitions =
          << Tr(1, <<"UPDATE">>, NoGuard, <<Custom("update")>>, <<>>, TRUE),
             Tr(1, <<"JUMP">>, NoGuard, <<Custom("jump")>>, <<3>>, FALSE),
             Tr(1, <<"INNER">>, NoGuard, <<Custom("inner")>>, <<3>>, TRUE) >>],
     [Leaf("a", 1) EXCEPT !.exit = <<Custom("exit_a")>>],
     [Leaf("b", 1) EXCEPT !.transitions = <<On(3, "BACK", 2)>>] >>

\* part_002:2744-2766, with an event that enters the invoking state again
\* and, as in part_002:2715-2731, an invocation of the state left at once
TransientInvokeNodes ==
  << N("transient", "compound", 0, <<2, 5>>, <<2>>),
     [N("withNonLeafInvoke", "compound", 1, <<3, 4>>, <<3>>) EXCEPT
        !.invoke = <<"doNotInvoke">>],
     [Leaf("first", 2) EXCEPT !.transitions = <<Always(3, NoGuard, 4)>>],
     [Leaf("second", 2) EXCEPT !.invoke = <<"leftAtOnce">>,
                               !.transitions = <<Always(4, NoGuard, 5)>>],
     [Leaf("inactive", 1) EXCEPT !.transitions = <<On(5, "AGAIN", 2)>>] >>

\* part_002:1372-1396; RESOLVE stands for the done.invoke event of the promise
PromiseNodes ==
  << N("promise", "compound", 0, <<2, 5>>, <<2>>),
     [N("parent", "compound", 1, <<3, 4>>, <<3>>) EXCEPT !.transitions =
        <<Tr(2, <<"done", "state", "promise", "parent">>, NoGuard, <<>>, <<5>>, FALSE)>>],
     [Leaf("pending", 2) EXCEPT !.transitions = <<On(3, "RESOLVE", 4)>>],
     Final("success", 2),
     Final("success", 1) >>

\* part_002:1139-1163, a parallel root whose regions have final children;
\* with a second region that is parallel itself, a transition of the root
\* that handles the done.state events and, when withHistory, a history child
\* of the root
PingNodes(withHistory) ==
  << [N(IF withHistory THEN "pingh" ELSE "ping", "parallel", 0,
        IF withHistory THEN <<2, 5, 12>> ELSE <<2, 5>>, <<>>) EXCEPT
        !.transitions =
          <<Tr(1, <<"done", "state", "*">>, NoGuard, <<Custom("noted")>>, <<>>, TRUE)>>],
     N("one", "compound", 1, <<3, 4>>, <<3>>),
     [Leaf("active", 2) EXCEPT !.transitions = <<On(3, "F1", 4)>>],
     Final("success", 2),
     N("two", "parallel", 1, <<6, 9>>, <<>>),
     N("x", "compound", 5, <<7, 8>>, <<7>>),
     [Leaf("active", 6) EXCEPT !.transitions = <<On(7, "F2", 8)>>],
     Final("success", 6),
     N("y", "compound", 5, <<10, 11>>, <<10>>),
     [Leaf("active", 9) EXCEPT !.transitions = <<On(10, "F3", 11)>>],
     Final("success", 9) >>
  \o (IF withHistory
        THEN <<[N("hist", "history", 1, <<>>, <<>>) EXCEPT !.history = "deep"]>>
        ELSE <<>>)

\* action lists mixing assign, custom, choose and pure actions, and an
\* assign whose updater throws, with a transition on error.execution
AssignNodes ==
  << N("assigns", "compound", 0, <<2, 3>>, <<2>>),
     [Leaf("active", 1) EXCEPT
        !.entry = <<Custom("enter"), AssignInc, Custom("entered")>>,
        !.transitions =
          << Tr(2, <<"TWICE">>, NoGuard,
                <<Custom("capture0"), AssignInc, Custom("capture1"), AssignInc,
                  Custom("capture2")>>, <<>>, TRUE),
             Tr(2, <<"PICK">>, NoGuard,
                <<AssignInc,
                  Choose(<<Branch(G("ctxGt", 2), <<Custom("many")>>),
                           Branch(NoGuard, <<Custom("few")>>)>>),
                  AssignSet(0),
                  Pure(<<Branch(G("ctxEq", 0), <<Custom("zero")>>),
                         Branch(NoGuard, <<Custom("nonzero")>>)>>)>>, <<>>, TRUE),
             Tr(2, <<"FAIL">>, NoGuard,
                <<AssignInc, Custom("before"), AssignThrow, Custom("after"),
                  AssignInc>>, <<>>, TRUE),
             Tr(2, <<"error", "execution">>, NoGuard, <<Custom("failed")>>, <<3>>, FALSE) >>],
     [Leaf("failed", 1) EXCEPT
        !.transitions =
          <<Tr(3, <<"RETRY">>, NoGuard, <<AssignSet(0)>>, <<2>>, FALSE)>>] >>

\* two regions that each wait in a state whose eventless transition is
\* guarded by the context, which an event handled by the root increments
OrderNodes ==
  << [N("order", "parallel", 0, <<2, 6>>, <<>>) EXCEPT
        !.transitions =
          << Tr(1, <<"INC">>, NoGuard, <<AssignInc>>, <<>>, TRUE),
             Tr(1, <<"TO1">>, NoGuard, <<Custom("seen")>>, <<>>, TRUE) >>],
     N("R1", "compound", 1, <<3, 4, 5>>, <<3>>),
     [Leaf("r1a", 2) EXCEPT !.transitions = <<On(3, "TO1", 4)>>],
     [Leaf("r1b", 2) EXCEPT !.transitions =
        <<Tr(4, NULL_EVENT, G("ctxGt", 0), <<Custom("x1")>>, <<5>>, FALSE)>>],
     Leaf("r1c", 2),
     N("R2", "compound", 1, <<7, 8, 9>>, <<7>>),
     [Leaf("r2a", 6) EXCEPT !.transitions = <<On(7, "TO2", 8)>>],
     [Leaf("r2b", 6) EXCEPT !.transitions =
        <<Tr(8, NULL_EVENT, G("ctxGt", 0), <<Custom("x2")>>, <<9>>, FALSE)>>],
     Leaf("r2c", 6) >>

\* a parallel state whose second region is a parallel state again: the
\* eventless transitions of r1a, Q and q2 become enabled together once the
\* context is 1; X and Y are handled in both regions at once
NestedNodes ==
  << [N("nested", "parallel", 0, <<2, 5>>, <<>>) EXCEPT
        !.transitions = <<Tr(1, <<"INC">>, NoGuard, <<AssignInc>>, <<>>, TRUE)>>],
     N("R1", "compound", 1, <<3, 4>>, <<3>>),
     [Leaf("r1x", 2) EXCEPT
        !.transitions = <<On(3, "A", 4), On(3, "Y", 4)>>],
     [Leaf("r1a", 2) EXCEPT
        !.transitions =
          << Tr(4, NULL_EVENT, G("ctxGt", 0), <<Custom("t1")>>, <<3>>, FALSE),
             On(4, "X", 8) >>],
     [N("Q", "parallel", 1, <<6, 7>>, <<>>) EXCEPT
        !.transitions =
          <<Tr(5, NULL_EVENT, G("ctxEq", 1), <<AssignInc, Custom("t2")>>, <<3>>,
               FALSE)>>],
     [Leaf("q1", 5) EXCEPT !.transitions = <<On(6, "Y", 3)>>],
     N("Q2", "compound", 5, <<8, 9>>, <<8>>),
     [Leaf("q2x", 7) EXCEPT !.transitions = <<On(8, "B", 9)>>],
     [Leaf("q2", 7) EXCEPT
        !.transitions =
          << Tr(9, NULL_EVENT, G("ctxGt", 0), <<Custom("t3")>>, <<8>>, FALSE),
             On(9, "X", 8) >>] >>

\* a transition whose only actions raise two events that no state handles
\* a parallel state P with an internal transition to a descendant and a
\* transition from one of its regions into the other (stateUtils.ts:1072-1098)
DomainNodes ==
  << N("domain", "compound", 0, <<2>>, <<2>>),
     [N("P", "parallel", 1, <<3, 6>>, <<>>) EXCEPT
         !.entry = <<Custom("enterP")>>,
         !.exit = <<Custom("exitP")>>,
         !.transitions = <<Tr(2, <<"IN">>, NoGuard, <<>>, <<5>>, TRUE)>>],
     N("A", "compound", 2, <<4, 5>>, <<4>>),
     [Leaf("a1", 3) EXCEPT !.transitions = <<On(4, "CROSS", 8), On(4, "NEXT", 5)>>],
     [Leaf("a2", 3) EXCEPT !.transitions = <<On(5, "BACK", 4)>>],
     N("B", "compound", 2, <<7, 8>>, <<7>>),
     [Leaf("b1", 6) EXCEPT !.transitions = <<On(7, "NEXT", 8)>>],
     Leaf("b2", 6) >>

\* part_001:191-309 without A4 and B4: the guards of the eventless
\* transitions ask for the state of the other region; E counts in region A
\* and is guarded by the count in region B
RegionNodes ==
  << N("regions", "parallel", 0, <<2, 6>>, <<>>),
     N("A", "compound", 1, <<3, 4, 5>>, <<3>>),
     [Leaf("A1", 2) EXCEPT !.transitions =
         <<Tr(3, <<"E">>, NoGuard, <<AssignInc>>, <<4>>, FALSE)>>],
     [Leaf("A2", 2) EXCEPT !.transitions =
         <<Tr(4, NULL_EVENT, G("in", 8), <<>>, <<5>>, FALSE)>>],
     Leaf("A3", 2),
     N("B", "compound", 1, <<7, 8, 9>>, <<7>>),
     [Leaf("B1", 6) EXCEPT !.transitions =
         <<Tr(7, <<"E">>, G("ctxEq", 0), <<>>, <<8>>, FALSE)>>],
     [Leaf("B2", 6) EXCEPT !.transitions =
         <<Tr(8, NULL_EVENT, G("in", 4), <<>>, <<9>>, FALSE)>>],
     Leaf("B3", 6) >>

\* a compound state X whose initial state Y is compound too, both with
\* actions on their initial transitions (stateUtils.ts:1154-1167)
DefaultNodes ==
  << N("defaults", "compound", 0, <<2, 3>>, <<2>>),
     [Leaf("a", 1) EXCEPT !.transitions = <<On(2, "GO", 3), On(2, "INTO", 4)>>],
     [N("X", "compound", 1, <<4>>, <<4>>) EXCEPT
         !.entry = <<Custom("enterX")>>,
         !.initial.actions = <<Custom("initialX")>>],
     [N("Y", "compound", 3, <<5>>, <<5>>) EXCEPT
         !.entry = <<Custom("enterY")>>,
         !.initial.actions = <<Custom("initialY")>>],
     [Leaf("y1", 4) EXCEPT !.transitions = <<On(5, "BACK", 2)>>] >>

UnhandledNodes ==
  << N("unhandled", "compound", 0, <<2, 3>>, <<2>>),
     [Leaf("a", 1) EXCEPT !.transitions =
        << Tr(2, <<"ONE">>, NoGuard, <<Raise(<<"U1">>)>>, <<>>, TRUE),
           Tr(2, <<"TWO">>, NoGuard, <<Raise(<<"U1">>), Raise(<<"U2">>)>>, <<>>, TRUE),
           On(2, "GO", 3) >>],
     [Leaf("b", 1) EXCEPT !.transitions =
        << On(3, "GO", 2),
           Tr(3, <<"INC">>, NoGuard, <<AssignInc>>, <<>>, TRUE) >>] >>

\* a parallel state in a compound root, with a shallow history node in a
\* region, a deep history node of the parallel state and a final state
DeepNodes ==
  << N("deep", "compound", 0, <<2, 12>>, <<2>>),
     [N("P", "parallel", 1, <<3, 7, 11>>, <<>>) EXCEPT
        !.entry = <<Custom("e_P")>>, !.exit = <<Custom("x_P")>>,
        !.transitions =
          << Tr(2, <<"OUT">>, NoGuard, <<Custom("out")>>, <<12>>, FALSE),
             Tr(2, <<"RESET">>, NoGuard, <<Custom("reset")>>, <<2>>, FALSE) >>],
     [N("R1", "compound", 2, <<4, 5, 6>>, <<4>>) EXCEPT
        !.entry = <<Custom("e_R1")>>, !.exit = <<Custom("x_R1")>>],
     [Leaf("r1a", 3) EXCEPT
        !.entry = <<Custom("e_r1a")>>, !.exit = <<Custom("x_r1a")>>,
        !.transitions = <<Tr(4, <<"GO">>, NoGuard, <<Custom("go1")>>, <<5>>, FALSE)>>],
     [Leaf("r1b", 3) EXCEPT
        !.entry = <<Custom("e_r1b")>>, !.exit = <<Custom("x_r1b")>>],
     [N("h", "history", 3, <<>>, <<>>) EXCEPT !.history = "shallow"],
     [N("R2", "compound", 2, <<8, 9, 10>>, <<8>>) EXCEPT
        !.entry = <<Custom("e_R2")>>, !.exit = <<Custom("x_R2")>>],
     [Leaf("r2a", 7) EXCEPT
        !.entry = <<Custom("e_r2a")>>, !.exit = <<Custom("x_r2a")>>,
        !.transitions =
          << Tr(8, <<"GO">>, NoGuard, <<Custom("go2")>>, <<9>>, FALSE),
             On(8, "STEP", 10) >>],
     [Leaf("r2b", 7) EXCEPT
        !.entry = <<Custom("e_r2b")>>, !.exit = <<Custom("x_r2b")>>],
     [Final("r2f", 7) EXCEPT
        !.entry = <<Custom("e_r2f")>>, !.exit = <<Custom("x_r2f")>>],
     [N("hd", "history", 2, <<>>, <<>>) EXCEPT !.history = "deep"],
     [Leaf("Z", 1) EXCEPT
        !.entry = <<Custom("e_Z")>>, !.exit = <<Custom("x_Z")>>,
        !.transitions =
          <<On(12, "BACK", 2), On(12, "HIST", 6), On(12, "DEEP", 11)>>] >>

Machine(key, nodes, contexts, events, scxml) ==
  [key |-> key, nodes |-> nodes, contexts |-> contexts, events |-> events,
   scxml |-> scxml]

Machines ==
  << Machine("raised", RaisedNodes, {0}, {<<"FOO">>, <<"FOO2">>}, FALSE),
     Machine("auto", AutoNodes, {0}, {<<"A">>}, FALSE),
     Machine("machine", RootTransientNodes, {0}, {<<"ADD">>}, FALSE),
     Machine("carry", CarryNodes, {0}, {<<"TIMER">>, <<"RESET">>}, FALSE),
     Machine("auth", AuthNodes, {0}, {<<"changePassword">>, <<"grow">>}, FALSE),
     Machine("update", UpdateNodes, {0, 1, 2, 3}, {<<"UPDATE_BUTTON_CLICKED">>}, FALSE),
     Machine("wild", WildNodes, {0},
             {<<"FOO">>, <<"TOK">>, <<"BACK">>, <<"a">>, <<"a", "b">>,
              <<"a", "b", "c">>, <<"a", "c">>, <<"c">>}, FALSE),
     Machine("scxml", ScxmlNodes, {0},
             {<<"a">>, <<"a", "b">>, <<"a", "c">>, <<"BACK">>}, TRUE),
     Machine("parent", InvokeNodes, {0},
             {<<"NEXT">>, <<"AGAIN">>, <<"SWAP">>}, FALSE),
     Machine("rootinvoke", RootInvokeNodes, {0},
             {<<"UPDATE">>, <<"JUMP">>, <<"INNER">>, <<"BACK">>}, FALSE),
     Machine("transient", TransientInvokeNodes, {0}, {<<"AGAIN">>}, FALSE),
     Machine("promise", PromiseNodes, {0}, {<<"RESOLVE">>}, FALSE),
     Machine("ping", PingNodes(FALSE), {0}, {<<"F1">>, <<"F2">>, <<"F3">>}, FALSE),
     Machine("pingh", PingNodes(TRUE), {0}, {<<"F1">>, <<"F2">>, <<"F3">>}, FALSE),
     Machine("assigns", AssignNodes, {0},
             {<<"TWICE">>, <<"PICK">>, <<"FAIL">>, <<"RETRY">>}, FALSE),
     Machine("order", OrderNodes, {0}, {<<"TO1">>, <<"TO2">>, <<"INC">>}, FALSE),
     Machine("nested", NestedNodes, {0},
             {<<"A">>, <<"B">>, <<"INC">>, <<"X">>, <<"Y">>}, FALSE),
     Machine("domain", DomainNodes, {0},
             {<<"IN">>, <<"CROSS">>, <<"NEXT">>, <<"BACK">>}, FALSE),
     Machine("regions", RegionNodes, {0}, {<<"E">>}, FALSE),
     Machine("defaults", DefaultNodes, {0},
             {<<"GO">>, <<"INTO">>, <<"BACK">>}, FALSE),
     Machine("unhandled", UnhandledNodes, {0},
             {<<"ONE">>, <<"TWO">>, <<"GO">>, <<"INC">>}, FALSE),
     Machine("deep", DeepNodes, {0},
             {<<"GO">>, <<"STEP">>, <<"OUT">>, <<"RESET">>, <<"BACK">>, <<"HIST">>,
              <<"DEEP">>}, FALSE) >>

M == mach

Nodes == 1..Len(M.nodes)

Node(n) == M.nodes[n]

root == 1

(***************************************************************************)
(* The node tree                                                           *)
(***************************************************************************)
isAtomicStateNode(n) == Node(n).type \in {"atomic", "final"}

isHistoryNode(n) == Node(n).type = "history"

getChildren(n) == Node(n).states

RECURSIVE getProperAncestors(_, _)
getProperAncestors(n, toStateNode) ==
  LET m0 == Node(n).parent
  IN IF m0 = 0 \/ m0 = toStateNode THEN <<>>
     ELSE <<m0>> \o getProperAncestors(m0, toStateNode)

\* parentStateNode 0 stands for undefined: the walk then ends at the root,
\* whose parent is undefined too, and the comparison succeeds.
RECURSIVE isDescendant(_, _)
isDescendant(childStateNode, parentStateNode) ==
  LET par == Node(childStateNode).parent
  IN IF par # 0 /\ par # parentStateNode
       THEN isDescendant(par, parentStateNode)
       ELSE par = parentStateNode

getPathFromRootToNode(n) == Reverse(getProperAncestors(n, 0))

getHistoryNodes(n) == SelectSeq(getChildren(n), isHistoryNode)

RECURSIVE Path(_)
Path(n) == IF Node(n).parent = 0 THEN <<>> ELSE Append(Path(Node(n).parent), Node(n).key)

\* StateNode constructor: config.id, or the machine key joined with the path
NodeId(n) == IF Node(n).cid # "" THEN <<Node(n).cid>> ELSE <<M.key>> \o Path(n)

done(n) == <<"done", "state">> \o NodeId(n)

errorExecution == <<"error", "execution">>

(***************************************************************************)
(* Candidates and guards                                                   *)
(***************************************************************************)
EndsWithDotStar(eventType) == Len(eventType) >= 2 /\ Last(eventType) = "*"

RECURSIVE TokenLoop(_, _, _)
TokenLoop(partialEventTokens, eventTokens, tokenIndex) ==
  IF tokenIndex > Len(partialEventTokens) THEN TRUE
  ELSE IF partialEventTokens[tokenIndex] = "*"
    THEN tokenIndex = Len(partialEventTokens)
  ELSE IF tokenIndex > Len(eventTokens)
          \/ partialEventTokens[tokenIndex] # eventTokens[tokenIndex]
    THEN FALSE
  ELSE TokenLoop(partialEventTokens, eventTokens, tokenIndex + 1)

\* A faulty CandidateMatches without the test for the null event.
MatchesIgnoringTransient(eventType, receivedEventType, partialMatch) ==
  IF eventType = receivedEventType THEN TRUE
  ELSE IF eventType = WILDCARD THEN TRUE
  ELSE IF ~partialMatch /\ ~EndsWithDotStar(eventType) THEN FALSE
  ELSE TokenLoop(eventType, receivedEventType, 1)

CandidateMatches(eventType, receivedEventType, partialMatch) ==
  IF eventType = receivedEventType THEN TRUE
  ELSE IF receivedEventType = NULL_EVENT THEN FALSE
  ELSE IF eventType = WILDCARD THEN TRUE
  ELSE IF ~partialMatch /\ ~EndsWithDotStar(eventType) THEN FALSE
  ELSE TokenLoop(eventType, receivedEventType, 1)

getCandidates(stateNode, receivedEventType, partialMatch) ==
  SelectSeq(Node(stateNode).transitions,
            LAMBDA t : CandidateMatches(t.eventType, receivedEventType, partialMatch))

evaluateGuard(guard, context, event, state) ==
  CASE guard.type = "none" -> TRUE
    [] guard.type = "ctxLt" -> context < guard.arg
    [] guard.type = "ctxGt" -> context > guard.arg
    [] guard.type = "ctxEq" -> context = guard.arg
    [] guard.type = "in" -> InSeq(guard.arg, state.configuration)

\* A faulty FirstPassing that keeps looking after a guard has passed.
RECURSIVE LastPassing(_, _, _)
LastPassing(candidates, state, event) ==
  IF candidates = <<>> THEN <<>>
  ELSE IF LastPassing(Tail(candidates), state, event) # <<>>
    THEN LastPassing(Tail(candidates), state, event)
  ELSE IF evaluateGuard(Head(candidates).guard, state.context, event, state)
    THEN <<Head(candidates)>>
  ELSE <<>>

RECURSIVE FirstPassing(_, _, _)
FirstPassing(candidates, state, event) ==
  IF candidates = <<>> THEN <<>>
  ELSE IF evaluateGuard(Head(candidates).guard, state.context, event, state)
    THEN <<Head(candidates)>>
  ELSE FirstPassing(Tail(candidates), state, event)

\* StateNode.next: the first candidate whose guard passes, or nothing
next(stateNode, state, event) ==
  FirstPassing(getCandidates(stateNode, event, M.scxml), state, event)

(***************************************************************************)
(* State values                                                            *)
(* A state value is [str, map]: str is the child a string leaf names (0    *)
(* for an object), map the object's entries <<child, value>> in key order. *)
(***************************************************************************)
EmptyValue == [str |-> 0, map |-> <<>>]

AdjGet(configuration, n) ==
  SelectSeq(configuration, LAMBDA s : Node(s).parent = n)

AdjHas(configuration, n) ==
  InSeq(n, configuration) \/ AdjGet(configuration, n) # <<>>

RECURSIVE getValueFromAdj(_, _)
getValueFromAdj(baseNode, configuration) ==
  LET childStateNodes == AdjGet(configuration, baseNode)
  IN IF ~AdjHas(configuration, baseNode) THEN EmptyValue
     ELSE IF Node(baseNode).type = "compound" /\ childStateNodes = <<>>
       THEN EmptyValue
     ELSE IF Node(baseNode).type = "compound"
             /\ isAtomicStateNode(childStateNodes[1])
       THEN [str |-> childStateNodes[1], map |-> <<>>]
     ELSE [str |-> 0,
           map |-> [i \in 1..Len(childStateNodes) |->
                      <<childStateNodes[i],
                        getValueFromAdj(childStateNodes[i], configuration)>>]]

RECURSIVE transitionNode(_, _, _, _)
\* A faulty OrNext that lets the state node's own transition win.
AncestorFirst(childResult, stateNode, state, event) ==
  IF next(stateNode, state, event) # <<>>
    THEN next(stateNode, state, event) ELSE childResult

\* the state a region would see if the transitions of the regions before it
\* had been taken already
Advanced(state, transitions) ==
  [state EXCEPT
     !.configuration =
        SelectSeq(@, LAMBDA n : \A i \in 1..Len(transitions) : transitions[i].source # n)
        \o Flatten([i \in 1..Len(transitions) |-> transitions[i].target]),
     !.context =
        @ + Len(SelectSeq(Flatten([i \in 1..Len(transitions) |-> transitions[i].actions]),
                          LAMBDA a : a.type = "assign"))]

RECURSIVE RegionsInTurn(_, _, _, _)
RegionInTurn(map, state, event, acc, regionResult) ==
  RegionsInTurn(Tail(map), Advanced(state, regionResult), event, acc \o regionResult)

RegionsInTurn(map, state, event, acc) ==
  IF map = <<>> THEN acc
  ELSE RegionInTurn(map, state, event, acc,
                    transitionNode(Head(map)[1], Head(map)[2], state, event))

\* `childResult || stateNode.next(state, _event)`
OrNext(childResult, stateNode, state, event) ==
  IF childResult = <<>> THEN next(stateNode, state, event) ELSE childResult

transitionLeafNode(stateNode, stateValue, state, event) ==
  OrNext(next(stateValue.str, state, event), stateNode, state, event)

transitionCompoundNode(stateNode, stateValue, state, event) ==
  OrNext(transitionNode(stateValue.map[1][1], stateValue.map[1][2], state, event),
         stateNode, state, event)

\* A faulty transitionParallelNode that shows each region the state as the
\* regions before it leave it.
RegionAfterRegion(stateNode, stateValue, state, event) ==
  OrNext(RegionsInTurn(stateValue.map, state, event, <<>>), stateNode, state, event)

transitionParallelNode(stateNode, stateValue, state, event) ==
  OrNext(Flatten([i \in 1..Len(stateValue.map) |->
                    transitionNode(stateValue.map[i][1], stateValue.map[i][2],
                                   state, event)]),
         stateNode, state, event)

transitionNode(stateNode, stateValue, state, event) ==
  IF stateValue.str # 0
    THEN transitionLeafNode(stateNode, stateValue, state, event)
  ELSE IF Len(stateValue.map) = 1
    THEN transitionCompoundNode(stateNode, stateValue, state, event)
  ELSE transitionParallelNode(stateNode, stateValue, state, event)

(***************************************************************************)
(* Transition domain, exit set and conflict removal                        *)
(* Of a State these read only historyValue, passed as hv: a function from  *)
(* nodes to [has, nodes], has telling whether the key is present.          *)
(***************************************************************************)
NoHistory == [n \in Nodes |-> [has |-> FALSE, nodes |-> <<>>]]

resolveHistoryTarget(stateNode) ==
  IF Node(stateNode).target = <<>>
    THEN Node(Node(stateNode).parent).initial.target
    ELSE Node(stateNode).target

RECURSIVE getEffectiveTargetStates(_, _)
getEffectiveTargetStates(target, hv) ==
  IF target = <<>> THEN <<>>
  ELSE SeqAddAll(
         IF isHistoryNode(Head(target))
           THEN IF hv[Head(target)].has
                  THEN SeqAddAll(<<>>, hv[Head(target)].nodes)
                  ELSE getEffectiveTargetStates(resolveHistoryTarget(Head(target)), hv)
           ELSE <<Head(target)>>,
         getEffectiveTargetStates(Tail(target), hv))

RECURSIVE FilterCommon(_, _)
FilterCommon(current, stateNodes) ==
  IF stateNodes = <<>> THEN current
  ELSE FilterCommon(
         SelectSeq(current,
                   LAMBDA sn : InSeq(sn, getPathFromRootToNode(Head(stateNodes)))),
         Tail(stateNodes))

\* current[current.length - 1]; 0 (undefined) when no node is common to the paths
LastOrNone(current) == IF current = <<>> THEN 0 ELSE Last(current)

findLCCA(stateNodes) ==
  LastOrNone(FilterCommon(getPathFromRootToNode(Head(stateNodes)), stateNodes))

DomainOf(transition, targetStates) ==
  IF transition.internal
     /\ Node(transition.source).type = "compound"
     /\ \A i \in 1..Len(targetStates) :
           isDescendant(targetStates[i], transition.source)
    THEN transition.source
    ELSE findLCCA(Append(targetStates, transition.source))

getTransitionDomain(transition, hv) ==
  DomainOf(transition, getEffectiveTargetStates(transition.target, hv))

DescendantsIn(configuration, domain) ==
  SelectSeq(configuration, LAMBDA sn : isDescendant(sn, domain))

RECURSIVE computeExitSet(_, _, _)
computeExitSet(transitions, configuration, hv) ==
  IF transitions = <<>> THEN <<>>
  ELSE SeqAddAll(
         IF Head(transitions).target # <<>>
           THEN DescendantsIn(configuration,
                              getTransitionDomain(Head(transitions), hv))
           ELSE <<>>,
         computeExitSet(Tail(transitions), configuration, hv))

hasIntersection(s1, s2) == Range(s1) \cap Range(s2) # {}

\* the inner loop over filteredTransitions: stops at the first transition
\* that preempts t1, collecting the ones t1 preempts on the way
RECURSIVE ScanFiltered(_, _, _, _, _)
ScanFiltered(t1, rest, toRemove, configuration, hv) ==
  IF rest = <<>> THEN [preempted |-> FALSE, toRemove |-> toRemove]
  ELSE IF hasIntersection(computeExitSet(<<t1>>, configuration, hv),
                          computeExitSet(<<Head(rest)>>, configuration, hv))
    THEN IF isDescendant(t1.source, Head(rest).source)
           THEN ScanFiltered(t1, Tail(rest), toRemove \cup {Head(rest)},
                             configuration, hv)
           ELSE [preempted |-> TRUE, toRemove |-> toRemove]
  ELSE ScanFiltered(t1, Tail(rest), toRemove, configuration, hv)

\* the end of one iteration of the outer loop
KeepUnlessPreempted(t1, filteredTransitions, scan) ==
  IF scan.preempted THEN filteredTransitions
  ELSE SeqAdd(SelectSeq(filteredTransitions, LAMBDA t3 : t3 \notin scan.toRemove), t1)

RECURSIVE RemoveLoop(_, _, _, _)
RemoveLoop(enabledTransitions, filteredTransitions, configuration, hv) ==
  IF enabledTransitions = <<>> THEN filteredTransitions
  ELSE RemoveLoop(Tail(enabledTransitions),
                  KeepUnlessPreempted(Head(enabledTransitions), filteredTransitions,
                    ScanFiltered(Head(enabledTransitions), filteredTransitions, {},
                                 configuration, hv)),
                  configuration, hv)

removeConflictingTransitions(enabledTransitions, configuration, hv) ==
  RemoveLoop(enabledTransitions, <<>>, configuration, hv)

(***************************************************************************)
(* Entry set: acc is [enter, dflt], the sets mutStatesToEnter and          *)
(* mutStatesForDefaultEntry.  The mutually recursive procedures run as a   *)
(* stack of pending calls: each procedure returns the sets as it leaves    *)
(* them and the calls it makes, in order; RunCalls executes a call's own   *)
(* calls before the calls that follow it, as the call stack does.          *)
(***************************************************************************)
Call(op, stateNode, toStateNode) ==
  [op |-> op, stateNode |-> stateNode, toStateNode |-> toStateNode]

DescendantCalls(stateNodes) ==
  [i \in 1..Len(stateNodes) |-> Call("addDescendantStatesToEnter", stateNodes[i], 0)]

AncestorCalls(stateNodes, toStateNode) ==
  [i \in 1..Len(stateNodes) |->
     Call("addAncestorStatesToEnter", stateNodes[i], toStateNode)]

CallsOn(op, stateNodes) ==
  [i \in 1..Len(stateNodes) |-> Call(op, stateNodes[i], 0)]

\* the loop over the non-history children of a parallel node
RegionCalls(stateNode) ==
  CallsOn("region", SelectSeq(getChildren(stateNode), LAMBDA sn : ~isHistoryNode(sn)))

\* A faulty EnterRegion that never enters the region.
EnterRegionSkipped(child, acc) == [acc |-> acc, calls |-> <<>>]

\* one iteration of that loop
EnterRegion(child, acc) ==
  [acc |-> acc,
   calls |-> IF \E i \in 1..Len(acc.enter) : isDescendant(acc.enter[i], child)
               THEN <<>> ELSE DescendantCalls(<<child>>)]

addDescendantStatesToEnter(stateNode, hv, acc) ==
  IF isHistoryNode(stateNode)
    THEN IF hv[stateNode].has
           THEN [acc |-> acc,
                 calls |-> DescendantCalls(hv[stateNode].nodes) \o
                           AncestorCalls(hv[stateNode].nodes, Node(stateNode).parent)]
           ELSE [acc |-> acc,
                 calls |-> DescendantCalls(resolveHistoryTarget(stateNode)) \o
                           AncestorCalls(resolveHistoryTarget(stateNode), stateNode)]
  ELSE IF Node(stateNode).type = "compound"
    THEN [acc |-> [enter |-> SeqAdd(acc.enter, stateNode),
                   dflt |-> SeqAdd(acc.dflt, stateNode)],
          calls |-> DescendantCalls(Node(stateNode).initial.target) \o
                    AncestorCalls(Node(stateNode).initial.target, stateNode)]
  ELSE [acc |-> [acc EXCEPT !.enter = SeqAdd(@, stateNode)],
        calls |-> IF Node(stateNode).type = "parallel"
                    THEN RegionCalls(stateNode) ELSE <<>>]

\* one iteration of addAncestorStatesToEnter's loop over the proper ancestors
EnterAncestor(anc, acc) ==
  [acc |-> [acc EXCEPT !.enter = SeqAdd(@, anc)],
   calls |-> IF Node(anc).type = "parallel" THEN RegionCalls(anc) ELSE <<>>]

addAncestorStatesToEnter(stateNode, toStateNode, acc) ==
  [acc |-> acc,
   calls |-> CallsOn("ancestor", getProperAncestors(stateNode, toStateNode))]

RunCall(c, hv, acc) ==
  CASE c.op = "addDescendantStatesToEnter" ->
         addDescendantStatesToEnter(c.stateNode, hv, acc)
    [] c.op = "addAncestorStatesToEnter" ->
         addAncestorStatesToEnter(c.stateNode, c.toStateNode, acc)
    [] c.op = "ancestor" -> EnterAncestor(c.stateNode, acc)
    [] c.op = "region" -> EnterRegion(c.stateNode, acc)

RECURSIVE RunCalls(_, _, _)
RECURSIVE AfterCall(_, _, _)
\* a call has returned: run the calls it made, then the ones that follow it
AfterCall(returned, rest, hv) == RunCalls(returned.calls \o rest, hv, returned.acc)

RunCalls(calls, hv, acc) ==
  IF calls = <<>> THEN acc
  ELSE AfterCall(RunCall(Head(calls), hv, acc), Tail(calls), hv)

\* the calls computeEntrySet makes for one transition
TransitionCalls(t, hv) ==
  DescendantCalls(t.target) \o
  AncestorCalls(getEffectiveTargetStates(t.target, hv), getTransitionDomain(t, hv))

computeEntrySet(transitions, hv, acc) ==
  RunCalls(Flatten([i \in 1..Len(transitions) |-> TransitionCalls(transitions[i], hv)]),
           hv, acc)

NoEntry == [enter |-> <<>>, dflt |-> <<>>]

\* computeEntrySet for the single transition {target: [stateNode], source: stateNode}
getInitialStateNodes(stateNode) ==
  computeEntrySet(<<Tr(stateNode, <<"init">>, NoGuard, <<>>, <<stateNode>>, FALSE)>>,
                  NoHistory, NoEntry).enter

(***************************************************************************)
(* Configurations                                                          *)
(***************************************************************************)
\* the initial state nodes of the children of a parallel node that are missing
MissingRegions(s, mutConfiguration) ==
  Flatten([i \in 1..Len(getChildren(s)) |->
    IF isHistoryNode(getChildren(s)[i]) \/ InSeq(getChildren(s)[i], mutConfiguration)
      THEN <<>>
      ELSE getInitialStateNodes(getChildren(s)[i])])

RECURSIVE AddDefaults(_, _, _)
AddDefaults(rest, configuration, mutConfiguration) ==
  IF rest = <<>> THEN mutConfiguration
  ELSE AddDefaults(Tail(rest), configuration,
         SeqAddAll(mutConfiguration,
           IF Node(Head(rest)).type = "compound"
              /\ AdjGet(configuration, Head(rest)) = <<>>
             THEN getInitialStateNodes(Head(rest))
           ELSE IF Node(Head(rest)).type = "parallel"
             THEN MissingRegions(Head(rest), mutConfiguration)
           ELSE <<>>))

RECURSIVE AddAllAncestors(_, _)
AddAllAncestors(rest, mutConfiguration) ==
  IF rest = <<>> THEN mutConfiguration
  ELSE AddAllAncestors(Tail(rest),
         SeqAddAll(mutConfiguration, getProperAncestors(Head(rest), 0)))

WithAncestors(mutConfiguration) == AddAllAncestors(mutConfiguration, mutConfiguration)

WithDescendants(configuration) == AddDefaults(configuration, configuration, configuration)

getConfiguration(stateNodes) ==
  WithAncestors(WithDescendants(SeqAddAll(<<>>, stateNodes)))

getStateValue(rootNode, configuration) ==
  getValueFromAdj(rootNode, getConfiguration(configuration))

RECURSIVE isInFinalState(_, _)
isInFinalState(configuration, stateNode) ==
  IF Node(stateNode).type = "compound"
    THEN \E i \in 1..Len(getChildren(stateNode)) :
           /\ Node(getChildren(stateNode)[i]).type = "final"
           /\ InSeq(getChildren(stateNode)[i], configuration)
  ELSE IF Node(stateNode).type = "parallel"
    THEN \A i \in 1..Len(getChildren(stateNode)) :
           isInFinalState(configuration, getChildren(stateNode)[i])
  ELSE FALSE

\* State.done
Done(state) == isInFinalState(state.configuration, root)

(***************************************************************************)
(* States                                                                  *)
(***************************************************************************)
NewState(value, context, event, historyValue, actions, configuration, children) ==
  [value |-> value, context |-> context, event |-> event,
   historyValue |-> historyValue, actions |-> actions,
   configuration |-> configuration, children |-> children,
   changed |-> "undefined", internalQueue |-> <<>>]

\* State.toJSON: the fields of the state but configuration (transitions and
\* tags are not modelled)
toJSON(state) == [f \in DOMAIN state \ {"configuration"} |-> state[f]]

\* State.create(config): the constructor copies the fields of config;
\* fields tells which of them config defines, the others are undefined
create(config) ==
  [fields |-> DOMAIN config,
   state |-> NewState(config.value, config.context, config.event,
                      config.historyValue, config.actions,
                      IF "configuration" \in DOMAIN config
                        THEN config.configuration ELSE <<>>,
                      config.children)]

\* State.from({}, context)
StateFrom(context) == NewState(EmptyValue, context, initEvent, NoHistory, <<>>, <<>>, {})

(***************************************************************************)
(* Exit and entry                                                          *)
(***************************************************************************)
\* A faulty HistoryPredicate that records the children for deep history too.
ChildrenOnly(historyNode, exitStateNode, sn) == Node(sn).parent = exitStateNode

HistoryPredicate(historyNode, exitStateNode, sn) ==
  IF Node(historyNode).history = "deep"
    THEN isAtomicStateNode(sn) /\ isDescendant(sn, exitStateNode)
    ELSE Node(sn).parent = exitStateNode

RECURSIVE RecordHistory(_, _, _, _)
RecordHistory(historyNodes, exitStateNode, configuration, hv) ==
  IF historyNodes = <<>> THEN hv
  ELSE RecordHistory(Tail(historyNodes), exitStateNode, configuration,
         [hv EXCEPT ![Head(historyNodes)] =
            [has |-> TRUE,
             nodes |-> SelectSeq(configuration,
                         LAMBDA sn : HistoryPredicate(Head(historyNodes),
                                                      exitStateNode, sn))]])

RECURSIVE resolveHistoryValue(_, _, _)
resolveHistoryValue(hv, configuration, exitSet) ==
  IF exitSet = <<>> THEN hv
  ELSE resolveHistoryValue(
         RecordHistory(getHistoryNodes(Head(exitSet)), Head(exitSet), configuration, hv),
         configuration, Tail(exitSet))

StopActionsOf(stateNode) ==
  [i \in 1..Len(Node(stateNode).invoke) |-> Stop(Node(stateNode).invoke[i])]

InvokeActionsOf(stateNode) ==
  [i \in 1..Len(Node(stateNode).invoke) |-> Invoke(Node(stateNode).invoke[i])]

StopActions(statesToExit) ==
  Flatten([i \in 1..Len(statesToExit) |-> StopActionsOf(statesToExit[i])])

ExitActions(sorted) == Flatten([i \in 1..Len(sorted) |-> Node(sorted[i]).exit])

\* A faulty SortDescending that leaves the exit set as computeExitSet built it.
Unsorted(stateNodes) == stateNodes

SortDescending(stateNodes) == Reverse(SortAscSet(Range(stateNodes)))

\* exitStates from the sort on
ExitSorted(statesToExit, sorted, mutConfiguration, state) ==
  [exitSet |-> sorted,
   historyValue |-> resolveHistoryValue(state.historyValue, state.configuration, sorted),
   stops |-> StopActions(statesToExit),
   exits |-> ExitActions(sorted),
   actions |-> StopActions(statesToExit) \o ExitActions(sorted),
   configuration |-> SelectSeq(mutConfiguration, LAMBDA sn : ~InSeq(sn, sorted))]

ExitSet(statesToExit, mutConfiguration, state) ==
  ExitSorted(statesToExit, SortDescending(statesToExit), mutConfiguration, state)

exitStates(transitions, mutConfiguration, state) ==
  ExitSet(computeExitSet(transitions, mutConfiguration, state.historyValue),
          mutConfiguration, state)

\* microstep without a current state skips exitStates
NoExit(mutConfiguration) ==
  [exitSet |-> <<>>, historyValue |-> NoHistory, stops |-> <<>>, exits |-> <<>>,
   actions |-> <<>>, configuration |-> mutConfiguration]

DefaultEntryActions(dflt) ==
  Flatten([i \in 1..Len(dflt) |-> Node(dflt[i]).initial.actions])

\* the done.state events that entering a final node puts on the internal queue
DoneEvents(stateNodeToEnter, mutConfiguration) ==
  IF Node(stateNodeToEnter).type # "final" \/ Node(stateNodeToEnter).parent = 0
    THEN <<>>
  ELSE IF Node(Node(stateNodeToEnter).parent).parent = 0 THEN <<>>
  ELSE <<done(Node(stateNodeToEnter).parent)>> \o
       (IF Node(Node(Node(stateNodeToEnter).parent).parent).type = "parallel"
           /\ \A i \in 1..Len(getChildren(Node(Node(stateNodeToEnter).parent).parent)) :
                 isInFinalState(mutConfiguration,
                   getChildren(Node(Node(stateNodeToEnter).parent).parent)[i])
          THEN <<done(Node(Node(stateNodeToEnter).parent).parent)>> ELSE <<>>)

\* one iteration of enterStates' loop
EnterOne(stateNodeToEnter, dflt, res) ==
  [configuration |-> SeqAdd(res.configuration, stateNodeToEnter),
   statesToInvoke |-> SeqAdd(res.statesToInvoke, stateNodeToEnter),
   actions |-> res.actions \o Node(stateNodeToEnter).entry \o
               (IF InSeq(stateNodeToEnter, dflt)
                  THEN DefaultEntryActions(dflt) ELSE <<>>),
   internalQueue |-> res.internalQueue \o
                     DoneEvents(stateNodeToEnter,
                                SeqAdd(res.configuration, stateNodeToEnter))]

RECURSIVE EnterLoop(_, _, _)
EnterLoop(toEnter, dflt, res) ==
  IF toEnter = <<>> THEN res
  ELSE EnterLoop(Tail(toEnter), dflt, EnterOne(Head(toEnter), dflt, res))

SortAscending(stateNodes) == SortAscSet(Range(stateNodes))

NothingEntered(mutConfiguration) ==
  [configuration |-> mutConfiguration, statesToInvoke |-> <<>>,
   actions |-> <<>>, internalQueue |-> <<>>]

EnterResult(sets, res) ==
  [statesToInvoke |-> res.statesToInvoke, internalQueue |-> res.internalQueue,
   actions |-> res.actions, configuration |-> res.configuration,
   entrySet |-> SortAscending(sets.enter), defaultEntry |-> sets.dflt]

\* enterStates from the loop on
EnterSets(sets, mutConfiguration) ==
  EnterResult(sets, EnterLoop(SortAscending(sets.enter), sets.dflt,
                              NothingEntered(mutConfiguration)))

enterStates(transitions, mutConfiguration, state) ==
  EnterSets(computeEntrySet(transitions, state.historyValue, NoEntry), mutConfiguration)

(***************************************************************************)
(* Resolution of actions: r is [context, actions, raised, assigned]        *)
(***************************************************************************)
INTERNAL == "#_internal"

\* updateContext for one assign action: the next context, or a throw
UpdateContext(context, assignAction) ==
  CASE assignAction.name = <<"inc">> ->
         [threw |-> FALSE, context |-> context + assignAction.arg]
    [] assignAction.name = <<"set">> ->
         [threw |-> FALSE, context |-> assignAction.arg]
    [] OTHER -> [threw |-> TRUE, context |-> context]

\* A faulty Assigned that swallows the error of a throwing updater.
Swallowed(actionObject, u, r) ==
  IF u.threw
    THEN r
    ELSE [r EXCEPT !.context = u.context, !.assigned = TRUE,
                   !.actions = Append(@, actionObject)]

\* the try/catch around updateContext
Assigned(actionObject, u, r) ==
  IF u.threw
    THEN [r EXCEPT !.raised = Append(@, errorExecution)]
    ELSE [r EXCEPT !.context = u.context, !.assigned = TRUE,
                   !.actions = Append(@, actionObject)]

\* A faulty Preserved that leaves exec unbound.
Unbound(actionObject, r) == actionObject

\* the wrapped exec of a custom action, bound to the last preserved context
Preserved(actionObject, r) == [actionObject EXCEPT !.arg = r.context]

RECURSIVE FindBranch(_, _, _, _)
FindBranch(branches, context, event, currentState) ==
  IF branches = <<>> THEN <<>>
  ELSE IF evaluateGuard(Head(branches).guard, context, event, currentState)
    THEN Head(branches).actions
  ELSE FindBranch(Tail(branches), context, event, currentState)

RECURSIVE ResolveAll(_, _, _, _)
resolveAction(actionObject, event, currentState, r) ==
  CASE actionObject.type = "raise" ->
         [r EXCEPT !.raised = Append(@, actionObject.name)]
    [] actionObject.type = "send" ->
         IF actionObject.to = INTERNAL
           THEN [r EXCEPT !.raised = Append(@, actionObject.name)]
           ELSE [r EXCEPT !.actions = Append(@, actionObject)]
    [] actionObject.type \in {"choose", "pure"} ->
         ResolveAll(FindBranch(actionObject.sub, r.context, event, currentState),
                    event, currentState, r)
    [] actionObject.type = "assign" ->
         Assigned(actionObject, UpdateContext(r.context, actionObject), r)
    [] actionObject.type = "custom" ->
         [r EXCEPT !.actions = Append(@, Preserved(actionObject, r))]
    [] OTHER -> \* cancel, log, invoke, stop
         [r EXCEPT !.actions = Append(@, actionObject)]

ResolveAll(actionObjects, event, currentState, r) ==
  IF actionObjects = <<>> THEN r
  ELSE ResolveAll(Tail(actionObjects), event, currentState,
                  resolveAction(Head(actionObjects), event, currentState, r))

resolveActionsAndContext(actions, event, currentState) ==
  ResolveAll(actions, event, currentState,
             [context |-> currentState.context, actions |-> <<>>,
              raised |-> <<>>, assigned |-> FALSE])

(***************************************************************************)
(* The microstep                                                           *)
(* currentState is a State; hasCurrent is FALSE when the code's            *)
(* currentState is undefined, and then currentState is State.from({})      *)
(* carrying the machine's context.                                         *)
(***************************************************************************)
TransitionActions(filteredTransitions) ==
  Flatten([i \in 1..Len(filteredTransitions) |-> filteredTransitions[i].actions])

InvokeActions(statesToInvoke) ==
  Flatten([i \in 1..Len(statesToInvoke) |-> InvokeActionsOf(statesToInvoke[i])])

\* A faulty MicrostepActions that pushes the entry actions before the invoke
\* actions.
EntriesBeforeInvokes(filteredTransitions, ex, res) ==
  ex.actions \o TransitionActions(filteredTransitions) \o
  res.actions \o InvokeActions(res.statesToInvoke)

\* the list `actions` at the call of resolveActionsAndContext
MicrostepActions(filteredTransitions, ex, res) ==
  ex.actions \o TransitionActions(filteredTransitions) \o
  InvokeActions(res.statesToInvoke) \o res.actions

\* microstep's return value, with what the step did kept for inspection
MicrostepResult(filteredTransitions, ex, res, resolved) ==
  [actions |-> resolved.actions,
   configuration |-> res.configuration,
   historyValue |-> ex.historyValue,
   internalQueue |-> res.internalQueue \o resolved.raised,
   context |-> resolved.context,
   assigned |-> resolved.assigned,
   filteredTransitions |-> filteredTransitions,
   exitSet |-> ex.exitSet, entrySet |-> res.entrySet,
   defaultEntry |-> res.defaultEntry,
   stops |-> ex.stops, exits |-> ex.exits,
   transitionActions |-> TransitionActions(filteredTransitions),
   invokes |-> InvokeActions(res.statesToInvoke), entries |-> res.actions,
   raw |-> MicrostepActions(filteredTransitions, ex, res)]

\* microstep from the resolution of the actions on
MicrostepResolve(filteredTransitions, ex, res, currentState, event) ==
  MicrostepResult(filteredTransitions, ex, res,
    resolveActionsAndContext(MicrostepActions(filteredTransitions, ex, res),
                             event, currentState))

\* microstep from enterStates on; exitStates has written the history into
\* currentState.historyValue
MicrostepEnter(filteredTransitions, ex, currentState, event) ==
  MicrostepResolve(filteredTransitions, ex,
    enterStates(filteredTransitions, ex.configuration,
                [currentState EXCEPT !.historyValue = ex.historyValue]),
    currentState, event)

\* microstep from exitStates on
MicrostepExit(filteredTransitions, currentState, hasCurrent, mutConfiguration, event) ==
  MicrostepEnter(filteredTransitions,
    IF hasCurrent
      THEN exitStates(filteredTransitions, mutConfiguration, currentState)
      ELSE NoExit(mutConfiguration),
    currentState, event)

microstep(transitions, currentState, hasCurrent, mutConfiguration, event) ==
  MicrostepExit(
    removeConflictingTransitions(transitions, mutConfiguration,
                                 currentState.historyValue),
    currentState, hasCurrent, mutConfiguration, event)

RECURSIVE FirstEventless(_, _)
FirstEventless(ts, state) ==
  IF ts = <<>> THEN <<>>
  ELSE IF Head(ts).eventType = NULL_EVENT
          /\ evaluateGuard(Head(ts).guard, state.context, NULL_EVENT, state)
    THEN <<Head(ts)>>
  ELSE FirstEventless(Tail(ts), state)

\* the labelled loop over a state node and its proper ancestors
RECURSIVE EventlessOnBranch(_, _)
EventlessOnBranch(branch, state) ==
  IF branch = <<>> THEN <<>>
  ELSE IF FirstEventless(Node(Head(branch)).transitions, state) # <<>>
    THEN FirstEventless(Node(Head(branch)).transitions, state)
  ELSE EventlessOnBranch(Tail(branch), state)

EventlessOfAtomic(atomicStates, state) ==
  SeqAddAll(<<>>,
    Flatten([i \in 1..Len(atomicStates) |->
      EventlessOnBranch(<<atomicStates[i]>> \o getProperAncestors(atomicStates[i], 0),
                        state)]))

selectEventlessTransitions(state) ==
  removeConflictingTransitions(
    EventlessOfAtomic(SelectSeq(state.configuration, isAtomicStateNode), state),
    state.configuration, state.historyValue)

(***************************************************************************)
(* resolveMicroTransition                                                  *)
(***************************************************************************)
\* State.inert of a state that has actions: a new State without them
inert(state) ==
  NewState(state.value, state.context, initEvent, NoHistory, <<>>,
           state.configuration, state.children)

ActionIds(actions, type) ==
  {actions[i].to : i \in {j \in 1..Len(actions) : actions[j].type = type}}

\* the record kept of one microstep
StepRecord(kind, pre, event, transitions, resolved, ownActions) ==
  [kind |-> kind, pre |-> pre, event |-> event, enabled |-> transitions,
   taken |-> resolved.filteredTransitions,
   exitSet |-> resolved.exitSet, entrySet |-> resolved.entrySet,
   defaultEntry |-> resolved.defaultEntry,
   stops |-> resolved.stops, exits |-> resolved.exits,
   transitionActions |-> resolved.transitionActions,
   invokes |-> resolved.invokes, entries |-> resolved.entries,
   raw |-> resolved.raw, resolved |-> ownActions,
   raisedQueue |-> resolved.internalQueue]

willTransition(transitions, currentState, hasCurrent) ==
  \/ ~hasCurrent
  \/ transitions # <<>>
  \/ selectEventlessTransitions(currentState) # <<>>

\* the transition resolveMicroTransition makes up when there is no current state
InitialTransition(prevConfig) ==
  Tr(root, <<"xstate", "null">>, NoGuard, <<>>,
     SelectSeq(prevConfig, isAtomicStateNode), FALSE)

\* A faulty Children that keeps the children whose actor is stopped.
ChildrenNeverDeleted(currentState, hasCurrent, actions) ==
  (IF hasCurrent THEN currentState.children ELSE {})
  \cup ActionIds(actions, "invoke")

\* A faulty Children that adds the invoked children before it deletes the
\* stopped ones.
ChildrenStoppedLast(currentState, hasCurrent, actions) ==
  ((IF hasCurrent THEN currentState.children ELSE {})
   \cup ActionIds(actions, "invoke")) \ ActionIds(actions, "stop")

\* the children map: stop actions delete their id, invoke actions add theirs
Children(currentState, hasCurrent, actions) ==
  ((IF hasCurrent THEN currentState.children ELSE {}) \ ActionIds(actions, "stop"))
  \cup ActionIds(actions, "invoke")

Changed(currentState, hasCurrent, resolved, value) ==
  IF ~hasCurrent THEN "undefined"
  ELSE IF \/ value # currentState.value
          \/ resolved.actions # <<>>
          \/ resolved.assigned
    THEN "true" ELSE "false"

\* new State({...})
Constructed(currentState, hasCurrent, event, resolved) ==
  NewState(getStateValue(root, resolved.configuration), resolved.context, event,
           resolved.historyValue, resolved.actions, resolved.configuration,
           Children(currentState, hasCurrent, resolved.actions))

\* A faulty Completed that never puts the null event on the queue.
CompletedWithoutNull(currentState, hasCurrent, resolved, nextState) ==
  [nextState EXCEPT
     !.changed = Changed(currentState, hasCurrent, resolved, nextState.value),
     !.internalQueue = resolved.internalQueue]

\* nextState.changed, nextState._internalQueue and the null event put first
\* when the new state has an enabled eventless transition
Completed(currentState, hasCurrent, resolved, nextState) ==
  [nextState EXCEPT
     !.changed = Changed(currentState, hasCurrent, resolved, nextState.value),
     !.internalQueue =
        (IF selectEventlessTransitions(nextState) # <<>>
           THEN <<NULL_EVENT>> ELSE <<>>) \o resolved.internalQueue]

\* the early return: State.inert gives back currentState itself when it has
\* no actions, and then event and changed are written into currentState
InertResult(currentState, event, info) ==
  [state |-> [(IF currentState.actions = <<>> THEN currentState
               ELSE inert(currentState))
              EXCEPT !.event = event, !.changed = "false"],
   same |-> currentState.actions = <<>>,
   info |-> info]

\* resolveMicroTransition after the call of microstep.  Returns the next
\* State, whether it is the very object currentState, and the step's record.
Resolved(transitions, currentState, hasCurrent, event, resolved) ==
  IF hasCurrent /\ ~willTransition(transitions, currentState, hasCurrent)
    THEN InertResult(currentState, event,
           StepRecord("inert", currentState, event, transitions, resolved, <<>>))
    ELSE [state |-> Completed(currentState, hasCurrent, resolved,
                      Constructed(currentState, hasCurrent, event, resolved)),
          same |-> FALSE,
          info |-> StepRecord(IF hasCurrent THEN "step" ELSE "init", currentState,
                              event, transitions, resolved, resolved.actions)]

\* resolveMicroTransition after prevConfig
FromConfig(transitions, currentState, hasCurrent, event, prevConfig) ==
  Resolved(transitions, currentState, hasCurrent, event,
    microstep(IF hasCurrent THEN transitions ELSE <<InitialTransition(prevConfig)>>,
              currentState, hasCurrent, prevConfig, event))

resolveMicroTransition(transitions, currentState, hasCurrent, event) ==
  FromConfig(transitions, currentState, hasCurrent, event,
    getConfiguration(IF hasCurrent THEN currentState.configuration ELSE <<root>>))

\* A faulty MachineMicrostep that takes the eventless transitions in the
\* order of the configuration.
MicrostepInConfigurationOrder(state, event) ==
  resolveMicroTransition(
    IF event = NULL_EVENT
      THEN selectEventlessTransitions(state)
      ELSE transitionNode(root, state.value, state, event),
    state, TRUE, event)

\* StateMachine.microstep
MachineMicrostep(state, event) ==
  resolveMicroTransition(transitionNode(root, state.value, state, event),
                         state, TRUE, event)

\* the State object state as machine.microstep(state, event) leaves it:
\* State.inert hands back the object itself, into which event and changed
\* are then written, and resolveHistoryValue writes into state.historyValue
LeftBehind(state, event) ==
  LET r == MachineMicrostep(state, event)
  IN IF r.same THEN r.state
     ELSE IF r.info.kind = "inert" THEN state
     ELSE [state EXCEPT !.historyValue = r.state.historyValue]

(***************************************************************************)
(* Construction.  A string is the sequence of its characters; the config   *)
(* of a machine is the sequence of its state node configs in document      *)
(* order, each with the index of its parent (0 for the root); a Map is the *)
(* sequence of its entries in insertion order; node 0 is "it threw".       *)
(***************************************************************************)
delimiter == "."

STATE_IDENTIFIER == "#"

\* machine.key
MachineKey == <<"m">>

\* Array.prototype.join(delimiter)
RECURSIVE join(_)
join(strings) ==
  IF strings = <<>> THEN <<>>
  ELSE IF Len(strings) = 1 THEN Head(strings)
  ELSE Head(strings) \o <<delimiter>> \o join(Tail(strings))

\* toStatePath: String.prototype.split(delimiter)
RECURSIVE toStatePath(_, _)
toStatePath(str, key) ==
  IF str = <<>> THEN <<key>>
  ELSE IF Head(str) = delimiter THEN <<key>> \o toStatePath(Tail(str), <<>>)
  ELSE toStatePath(Tail(str), Append(key, Head(str)))

\* this.path
RECURSIVE PathOf(_, _)
PathOf(config, i) ==
  IF config[i].parent = 0 THEN <<>>
  ELSE Append(PathOf(config, config[i].parent), config[i].key)

\* this.id
IdOf(config, i) ==
  IF config[i].id # <<>> THEN config[i].id
  ELSE join(<<MachineKey>> \o PathOf(config, i))

MapHas(map, key) == \E k \in 1..Len(map) : map[k].key = key

\* Map.prototype.set: the value of an existing key is replaced in place
MapSet(map, key, value) ==
  IF MapHas(map, key)
    THEN [k \in 1..Len(map) |->
            IF map[k].key = key THEN [key |-> key, value |-> value] ELSE map[k]]
    ELSE Append(map, [key |-> key, value |-> value])

MapGet(map, key) ==
  IF MapHas(map, key)
    THEN map[CHOOSE k \in 1..Len(map) : map[k].key = key].value
    ELSE 0

\* the constructor up to the construction of the children: this.order and
\* the entry of the node in machine.idMap
Registered(config, i, b) ==
  [b EXCEPT !.orders = Append(@, Len(b.idMap)),
            !.idMap = MapSet(@, IdOf(config, i), i)]

\* the constructors of the nodes run in document order
RECURSIVE ConstructFrom(_, _, _)
ConstructFrom(config, i, b) ==
  IF i > Len(config) THEN b
  ELSE ConstructFrom(config, i + 1, Registered(config, i, b))

ChildrenOf(config, i) == {j \in 1..Len(config) : config[j].parent = i}

\* this.type of a config without type and history
TypeOf(config, i) == IF ChildrenOf(config, i) # {} THEN "compound" ELSE "atomic"

\* the constructor throws: a compound node without config.initial
MissingInitial(config) ==
  \E i \in 1..Len(config) : TypeOf(config, i) = "compound" /\ ~config[i].initial

\* no component was rendered
NotRendered ==
  [phase |-> "none", subscribed |-> FALSE, effectActions |-> <<>>,
   layoutEffectActions |-> <<>>, emitted |-> <<>>, executed |-> <<>>,
   ran |-> <<>>]

\* no interpreter was made
NotActing ==
  [status |-> "none", state |-> <<>>, mailbox |-> <<>>, timers |-> <<>>,
   children |-> <<>>, arrived |-> 0, handled |-> <<>>, obs |-> <<>>,
   sends |-> 0]

NotBuilding ==
  [status |-> "none", config |-> <<>>, idMap |-> <<>>, orders |-> <<>>,
   transitions |-> <<>>]

\* new StateNode(config, options) for the root config
newStateNode(b) ==
  IF MissingInitial(b.config)
    THEN [b EXCEPT !.status = "threw"]
    ELSE [ConstructFrom(b.config, 1, b) EXCEPT !.status = "built"]

\* machine.getStateNodeById: the node the id map holds for the id
getStateNodeById(b, stateId) ==
  MapGet(b.idMap, IF Head(stateId) = STATE_IDENTIFIER THEN Tail(stateId) ELSE stateId)

isStateId(str) == str # <<>> /\ Head(str) = STATE_IDENTIFIER

ChildByKey(b, stateNode, stateKey) ==
  IF \E j \in ChildrenOf(b.config, stateNode) : b.config[j].key = stateKey
    THEN CHOOSE j \in ChildrenOf(b.config, stateNode) : b.config[j].key = stateKey
    ELSE 0

getStateNode(b, stateNode, stateKey) ==
  IF isStateId(stateKey) THEN getStateNodeById(b, stateKey)
  ELSE ChildByKey(b, stateNode, stateKey)

\* the while loop of getStateNodeByPath
RECURSIVE WalkPath(_, _, _)
WalkPath(b, currentStateNode, arrayStatePath) ==
  IF arrayStatePath = <<>> \/ currentStateNode = 0 THEN currentStateNode
  ELSE IF Head(arrayStatePath) = <<>> THEN currentStateNode
  ELSE WalkPath(b, getStateNode(b, currentStateNode, Head(arrayStatePath)),
                Tail(arrayStatePath))

getStateNodeByPath(b, stateNode, statePath) ==
  IF isStateId(statePath) /\ getStateNodeById(b, statePath) # 0
    THEN getStateNodeById(b, statePath)
    ELSE WalkPath(b, stateNode, toStatePath(statePath, <<>>))

\* a target of a transition config: a string or a StateNode object
StringTarget(str) == [isString |-> TRUE, str |-> str, node |-> 0]

NodeTarget(n) == [isString |-> FALSE, str |-> <<>>, node |-> n]

isInternalTarget(target) == target.isString /\ Head(target.str) = delimiter

\* resolveTarget for one target
ResolveOne(b, stateNode, target) ==
  IF ~target.isString THEN target.node
  ELSE IF isInternalTarget(target) /\ b.config[stateNode].parent = 0
    THEN getStateNodeByPath(b, stateNode, Tail(target.str))
  ELSE IF b.config[stateNode].parent # 0
    THEN getStateNodeByPath(b, b.config[stateNode].parent,
           IF isInternalTarget(target)
             THEN b.config[stateNode].key \o target.str ELSE target.str)
  ELSE getStateNodeByPath(b, stateNode, target.str)

resolveTarget(b, stateNode, target) ==
  [i \in 1..Len(target) |-> ResolveOne(b, stateNode, target[i])]

\* A faulty InternalOf that asks every string target to be relative.
InternalWhenAll(transitionConfig) ==
  IF transitionConfig.internal # "absent" THEN transitionConfig.internal = "true"
  ELSE IF transitionConfig.hasTarget
    THEN \A i \in 1..Len(transitionConfig.target) :
           transitionConfig.target[i].isString
             => isInternalTarget(transitionConfig.target[i])
  ELSE TRUE

\* the constant internal of formatTransition
InternalOf(transitionConfig) ==
  IF transitionConfig.internal # "absent" THEN transitionConfig.internal = "true"
  ELSE IF transitionConfig.hasTarget
    THEN \E i \in 1..Len(transitionConfig.target) :
           isInternalTarget(transitionConfig.target[i])
  ELSE TRUE

\* the transition formatTransition returns, or its throw when a target does
\* not resolve
formatTransition(b, stateNode, transitionConfig) ==
  [source |-> stateNode,
   internal |-> InternalOf(transitionConfig),
   hasTarget |-> transitionConfig.hasTarget,
   target |-> resolveTarget(b, stateNode, transitionConfig.target),
   threw |-> \E i \in 1..Len(transitionConfig.target) :
               ResolveOne(b, stateNode, transitionConfig.target[i]) = 0]

(***************************************************************************)
(* The macrostep                                                           *)
(***************************************************************************)
NoStep ==
  [kind |-> "none", pre |-> StateFrom(0), event |-> initEvent, enabled |-> <<>>,
   taken |-> <<>>, exitSet |-> <<>>, entrySet |-> <<>>, defaultEntry |-> <<>>,
   stops |-> <<>>, exits |-> <<>>, transitionActions |-> <<>>,
   invokes |-> <<>>, entries |-> <<>>, raw |-> <<>>, resolved |-> <<>>,
   raisedQueue |-> <<>>]

Init ==
  /\ mach \in {Machines[i] : i \in 1..Len(Machines)}
  /\ pc = "init"
  /\ st \in {StateFrom(c) : c \in mach.contexts}
  /\ queue = <<>>
  /\ alias = FALSE
  /\ ms = NoStep
  /\ macroActions = <<>>
  /\ build = NotBuilding
  /\ actor = NotActing
  /\ hook = NotRendered

\* macrostep up to its loop: nextState, and _internalQueue = nextState's array
Begin(r) ==
  /\ st' = r.state
  /\ queue' = r.state.internalQueue
  /\ ms' = r.info
  /\ macroActions' = r.info.resolved
  /\ alias' = TRUE
  /\ pc' = "loop"
  /\ UNCHANGED <<mach, build, actor, hook>>

\* machine.initialState up to the head of macrostep's loop
Start ==
  /\ pc = "init"
  /\ Begin(resolveMicroTransition(<<>>, st, FALSE, initEvent))

\* machine.transition(state, event) up to the head of macrostep's loop
Transition(event) ==
  /\ pc = "idle"
  /\ st.context <= MaxCtx
  /\ Begin(MachineMicrostep(st, event))

\* A faulty Accumulated that pushes the earlier actions instead of unshifting.
Pushed(currentActions, nextActions) == nextActions \o currentActions

\* maybeNextState.actions.unshift(...currentActions); when machine.microstep
\* gave back the same State, currentActions is the array it unshifts into
Accumulated(currentActions, nextActions) == currentActions \o nextActions

\* maybeNextState at the end of the loop body: the event restored, the
\* earlier actions unshifted, and the rest of the queue still in front when
\* the state is the one whose array is being drained
IteratedState(raisedEvent, shifted, maybeNextState, r) ==
  [r.state EXCEPT
     !.event = IF raisedEvent = NULL_EVENT THEN maybeNextState.event ELSE @,
     !.actions = Accumulated(maybeNextState.actions, @),
     !.internalQueue = IF r.same /\ alias THEN shifted \o @ ELSE @]

\* _internalQueue.push(...maybeNextState._internalQueue)
IteratedQueue(shifted, r) == shifted \o r.state.internalQueue

\* the loop body after the call of machine.microstep
Iterated(raisedEvent, shifted, maybeNextState, r) ==
  /\ st' = IteratedState(raisedEvent, shifted, maybeNextState, r)
  /\ queue' = IteratedQueue(shifted, r)
  /\ alias' = (r.same /\ alias)
  /\ ms' = r.info
  /\ macroActions' = macroActions \o r.info.resolved
  /\ UNCHANGED <<mach, pc, build, actor, hook>>

\* the loop body after the shift; maybeNextState is seen with its queue as
\* the shift left it when that queue is the array being drained
Shifted(raisedEvent, shifted, maybeNextState) ==
  Iterated(raisedEvent, shifted, maybeNextState,
           MachineMicrostep(maybeNextState, raisedEvent))

\* one iteration of macrostep's while loop
LoopStep ==
  /\ pc = "loop"
  /\ queue # <<>>
  /\ ~Done(st)
  /\ Shifted(Head(queue), Tail(queue),
             IF alias THEN [st EXCEPT !.internalQueue = Tail(queue)] ELSE st)

\* the loop's condition fails: macrostep returns maybeNextState
Return ==
  /\ pc = "loop"
  /\ (queue = <<>> \/ Done(st))
  /\ pc' = "idle"
  /\ UNCHANGED <<mach, st, queue, alias, ms, macroActions, build, actor, hook>>

Next ==
  \/ Start
  \/ \E event \in M.events : Transition(event)
  \/ LoopStep
  \/ Return

Spec == Init /\ [][Next]_vars

\* the loop runs whenever it can
FairSpec == Spec /\ WF_vars(LoopStep) /\ WF_vars(Return)

(***************************************************************************)
(* Construction of a machine from a config drawn from a bounded set        *)
(***************************************************************************)
Keys == {<<"a">>, <<"b">>}

\* config.id: absent, an id of its own, or the id node a gets by default
ConfigIds == {<<>>, <<"x">>, <<"m", ".", "a">>}

NodeConfig(key, id, parent, initial) ==
  [key |-> key, id |-> id, parent |-> parent, initial |-> initial]

\* a key names one child only
DistinctKeys(config) ==
  \A i, j \in 1..Len(config) :
    (i < j /\ config[i].parent = config[j].parent) => config[i].key # config[j].key

\* machine configs of three nodes: the root with two children, or with a
\* child and a grandchild
Configs ==
  {config \in
     {<<NodeConfig(MachineKey, id1, 0, init1), NodeConfig(key2, id2, 1, init2),
        NodeConfig(key3, id3, parent3, FALSE)>> :
        id1 \in {<<>>, <<"x">>}, init1 \in BOOLEAN ,
        key2 \in Keys, id2 \in ConfigIds, init2 \in BOOLEAN ,
        key3 \in Keys, id3 \in ConfigIds, parent3 \in {1, 2}} :
     DistinctKeys(config)}

Targets ==
  {StringTarget(<<".", "a">>), StringTarget(<<"b">>), StringTarget(<<"#", "x">>),
   NodeTarget(3)}

TransitionConfigs ==
  {[internal |-> internal, hasTarget |-> FALSE, target |-> <<>>] :
     internal \in {"absent", "true", "false"}}
  \cup
  {[internal |-> internal, hasTarget |-> TRUE, target |-> target] :
     internal \in {"absent", "true", "false"},
     target \in {<<>>} \cup {<<t>> : t \in Targets}
                \cup {<<t1, t2>> : t1 \in Targets, t2 \in Targets}}

BuildInit ==
  /\ mach = Machines[1]
  /\ pc = "off"
  /\ st = StateFrom(0)
  /\ queue = <<>>
  /\ alias = FALSE
  /\ ms = NoStep
  /\ macroActions = <<>>
  /\ actor = NotActing
  /\ hook = NotRendered
  /\ build \in {[NotBuilding EXCEPT !.status = "config", !.config = config] :
                  config \in Configs}

\* createMachine(config): the root node and, in its constructor, the tree
Construct ==
  /\ build.status = "config"
  /\ build' = newStateNode(build)
  /\ UNCHANGED <<mach, pc, st, queue, alias, ms, macroActions, actor, hook>>

\* formatTransition(stateNode, transitionConfig) on a node of the machine
Format(stateNode, transitionConfig) ==
  /\ build.status = "built"
  /\ build.transitions = <<>>
  /\ build' = [build EXCEPT
                 !.transitions =
                   <<[config |-> transitionConfig,
                      transition |-> formatTransition(build, stateNode,
                                                      transitionConfig)]>>]
  /\ UNCHANGED <<mach, pc, st, queue, alias, ms, macroActions, actor, hook>>

BuildNext ==
  \/ Construct
  \/ \E stateNode \in 1..Len(build.config), transitionConfig \in TransitionConfigs :
       Format(stateNode, transitionConfig)

BuildSpec == BuildInit /\ [][BuildNext]_vars

(***************************************************************************)
(* Properties                                                              *)
(***************************************************************************)
\* the loop is about to take the event at the head of the queue
InLoop == pc = "loop" /\ queue # <<>> /\ ~Done(st)

\* the state has an enabled eventless transition
Transient(state) == selectEventlessTransitions(state) # <<>>

\* the last microstep ran microstep's exit, transition and entry phases
Stepped == ms.kind \in {"init", "step"}

\* the last microstep selected transitions for an event in a current state
Selected == ms.kind \in {"step", "inert"}

StrictlyIncreasing(s) == \A i \in 1..(Len(s) - 1) : s[i] < s[i + 1]

StrictlyDecreasing(s) == \A i \in 1..(Len(s) - 1) : s[i] > s[i + 1]

ExitActionsIn(nodes) == Flatten([i \in 1..Len(nodes) |-> Node(nodes[i]).exit])

EntryActionsIn(nodes) == Flatten([i \in 1..Len(nodes) |-> Node(nodes[i]).entry])

InvocationsIn(nodes) == Flatten([i \in 1..Len(nodes) |-> Node(nodes[i]).invoke])

ActionsOf(transitions) ==
  Flatten([i \in 1..Len(transitions) |-> transitions[i].actions])

\* C1: within a macrostep, when the state that the last microstep produced
\* has an enabled eventless transition, the next microstep is the eventless
\* one: the event the loop takes next is the null event, never a raised
\* event that waits in the internal queue.
C1_EventlessBeforeRaised ==
  (InLoop /\ Transient(st)) => Head(queue) = NULL_EVENT

\* C2, as stated: the state a macrostep returns has no enabled eventless
\* transition.
C2_ReturnedQuiescent == pc = "idle" => ~Transient(st)

\* C2, amended: the state a macrostep returns has no enabled eventless
\* transition, unless that state is final (the loop stops at a final state
\* whatever is still on the queue).
C2_ReturnedQuiescentUnlessDone == (pc = "idle" /\ ~Done(st)) => ~Transient(st)

\* a macrostep whose last microstep took an eventless transition has
\* returned a state that is not final
C2_Witness ==
  /\ pc = "idle"
  /\ ~Done(st)
  /\ ms.kind = "step"
  /\ ms.event = NULL_EVENT
  /\ ms.taken # <<>>

\* the state of the loop (maybeNextState, the queue, whether the queue is
\* maybeNextState's own array) after the iteration that takes raisedEvent
AfterIteration(raisedEvent, shifted, maybeNextState, r) ==
  <<IteratedState(raisedEvent, shifted, maybeNextState, r),
    IteratedQueue(shifted, r), r.same /\ alias>>

\* C3: every macrostep terminates.  The loop is deterministic, so it
\* terminates only if no iteration leaves it exactly where it was: while
\* the loop has an event to take, the iteration changes maybeNextState or
\* the queue.
C3_MacrostepAdvances ==
  InLoop =>
    AfterIteration(Head(queue), Tail(queue),
                   IF alias THEN [st EXCEPT !.internalQueue = Tail(queue)] ELSE st,
                   MachineMicrostep(
                     IF alias THEN [st EXCEPT !.internalQueue = Tail(queue)] ELSE st,
                     Head(queue)))
    # <<st, queue, alias>>

\* C4: in every state the machine produces, the configuration is the
\* ancestor closure of its active atomic nodes (every active node is atomic
\* or a proper ancestor of an active atomic node, and every ancestor of an
\* active node is active), and every non-history child of an active
\* parallel node is active.
C4_ConfigurationClosed ==
  pc # "init" =>
    /\ \A n \in Range(st.configuration) :
         \/ isAtomicStateNode(n)
         \/ \E a \in Range(st.configuration) :
              isAtomicStateNode(a) /\ InSeq(n, getProperAncestors(a, 0))
    /\ \A n \in Range(st.configuration) :
         Range(getProperAncestors(n, 0)) \subseteq Range(st.configuration)
    /\ \A n \in Range(st.configuration) :
         Node(n).type = "parallel" =>
           \A c \in Range(getChildren(n)) :
             isHistoryNode(c) \/ InSeq(c, st.configuration)

\* a state entered through a history node, with a parallel node active
C4_Witness ==
  /\ pc = "idle"
  /\ ms.kind = "step"
  /\ \E i \in 1..Len(ms.taken) :
       \E j \in 1..Len(ms.taken[i].target) : isHistoryNode(ms.taken[i].target[j])
  /\ \E n \in Range(st.configuration) : Node(n).type = "parallel"

\* the actions of the initial transitions of the machine's nodes, which
\* enterStates puts among the entry actions (stateUtils.ts:1154-1167)
InitialTransitionActions ==
  Flatten([n \in 1..Len(M.nodes) |-> Node(n).initial.actions])

\* an action list without the actions of initial transitions
WithoutInitialActions(actions) ==
  SelectSeq(actions, LAMBDA a : ~InSeq(a, InitialTransitionActions))

\* C5: in every microstep the exit actions are those of the exited nodes,
\* node by node in strictly decreasing document order, and the entry
\* actions those of the entered nodes, node by node in strictly increasing
\* document order, each node contributing once.
C5_ExitEntryOrder ==
  Stepped =>
    /\ StrictlyDecreasing(ms.exitSet)
    /\ StrictlyIncreasing(ms.entrySet)
    /\ ms.exits = ExitActionsIn(ms.exitSet)
    /\ WithoutInitialActions(ms.entries) = EntryActionsIn(ms.entrySet)

\* a microstep that exits and enters several nodes that have actions
C5_Witness ==
  /\ ms.kind = "step"
  /\ Len(ms.exitSet) >= 3
  /\ Len(ms.entrySet) >= 3
  /\ Len(ms.exits) >= 3
  /\ Len(ms.entries) >= 3

\* C6: the action list of a microstep is, in this order, the stop actions
\* of the invocations of the exited nodes, the exit actions, the actions of
\* the taken transitions in the order of their selection, the invoke
\* actions of the entered nodes, the entry actions; and in the resolved
\* list an entry action that sends to an invocation of an entered node
\* comes after the invoke action that creates that child.
C6_PhaseOrder ==
  Stepped =>
    LET tail == ExitActionsIn(ms.exitSet) \o ActionsOf(ms.taken) \o
                [i \in 1..Len(InvocationsIn(ms.entrySet)) |->
                   Invoke(InvocationsIn(ms.entrySet)[i])] \o
                EntryActionsIn(ms.entrySet)
        k == Len(WithoutInitialActions(ms.raw)) - Len(tail)
    IN /\ k = Len(InvocationsIn(ms.exitSet))
       /\ \A i \in 1..k : ms.raw[i].type = "stop"
       /\ {ms.raw[i].to : i \in 1..k} = Range(InvocationsIn(ms.exitSet))
       /\ SubSeq(WithoutInitialActions(ms.raw), k + 1,
                 Len(WithoutInitialActions(ms.raw))) = tail
       /\ \A j \in 1..Len(ms.resolved) :
            (/\ ms.resolved[j].type = "send"
             /\ InSeq(ms.resolved[j].to, InvocationsIn(ms.entrySet)))
            => \E i \in 1..(j - 1) : ms.resolved[i] = Invoke(ms.resolved[j].to)

\* a microstep with actions in all five phases, whose entry action sends to
\* the invocation of the state it enters
C6_Witness ==
  /\ ms.kind = "step"
  /\ ms.stops # <<>>
  /\ ms.exits # <<>>
  /\ ms.transitionActions # <<>>
  /\ ms.invokes # <<>>
  /\ \E j \in 1..Len(ms.entries) :
       /\ ms.entries[j].type = "send"
       /\ InSeq(ms.entries[j].to, InvocationsIn(ms.entrySet))

\* C7: the actions of the state a macrostep returns are the resolved
\* actions of its microsteps, concatenated in the order the microsteps were
\* taken.
C7_ActionsConcatenated == pc = "idle" => st.actions = macroActions

\* a macrostep of two microsteps that both resolved actions has returned
C7_Witness ==
  /\ pc = "idle"
  /\ ms.kind = "step"
  /\ ms.event = NULL_EVENT
  /\ ms.resolved # <<>>
  /\ Len(macroActions) > Len(ms.resolved)

\* C8: a transition is selected for a state node only if no active proper
\* descendant of that node has a guard-passing candidate for the event; an
\* active atomic node that has one has it selected; and the transitions
\* taken are among the selected ones.
C8_InnermostWins ==
  Selected =>
    /\ \A i \in 1..Len(ms.enabled) :
         \A d \in Range(ms.pre.configuration) :
           (d # ms.enabled[i].source /\ isDescendant(d, ms.enabled[i].source))
           => next(d, ms.pre, ms.event) = <<>>
    /\ \A a \in Range(ms.pre.configuration) :
         (isAtomicStateNode(a) /\ next(a, ms.pre, ms.event) # <<>>)
         => InSeq(next(a, ms.pre, ms.event)[1], ms.enabled)
    /\ Range(ms.taken) \subseteq Range(ms.enabled)

\* the transition of an atomic node was taken although its parent had a
\* guard-passing candidate for the same event
C8_Witness ==
  /\ ms.kind = "step"
  /\ Len(ms.taken) = 1
  /\ isAtomicStateNode(ms.taken[1].source)
  /\ next(Node(ms.taken[1].source).parent, ms.pre, ms.event) # <<>>

\* the candidates of node n for event e whose guard passes in state
PassingAt(n, e, state) ==
  {i \in 1..Len(getCandidates(n, e, M.scxml)) :
     evaluateGuard(getCandidates(n, e, M.scxml)[i].guard, state.context, e, state)}

\* C9: for every state node and every event, the transition the node
\* selects is the first of its candidates, in declaration order, whose
\* guard passes, and nothing when no guard passes.
C9_FirstPassingCandidate ==
  pc # "init" =>
    \A n \in Nodes : \A e \in M.events \cup {NULL_EVENT} :
      next(n, st, e) =
        IF PassingAt(n, e, st) = {} THEN <<>>
        ELSE <<getCandidates(n, e, M.scxml)[
                 CHOOSE i \in PassingAt(n, e, st) :
                   \A j \in PassingAt(n, e, st) : i <= j]>>

\* the third of four candidates was taken: the guards of the first two
\* fail, and the fourth, which has no guard, was not selected
C9_Witness ==
  /\ ms.kind = "step"
  /\ Len(ms.taken) = 1
  /\ Len(getCandidates(ms.taken[1].source, ms.event, M.scxml)) = 4
  /\ ms.taken[1] = getCandidates(ms.taken[1].source, ms.event, M.scxml)[3]
  /\ PassingAt(ms.taken[1].source, ms.event, ms.pre) = {3, 4}

\* the event types getCandidates is asked about
Tokens == {"a", "b", "c"}

EventTypes ==
  {NULL_EVENT, WILDCARD} \cup {<<x>> : x \in Tokens}
  \cup {<<x, y>> : x, y \in Tokens} \cup {<<x, y, z>> : x, y, z \in Tokens}

Front(s) == SubSeq(s, 1, Len(s) - 1)

IsPrefix(p, s) == Len(p) <= Len(s) /\ \A i \in 1..Len(p) : p[i] = s[i]

\* the descriptor d matches the event type e
Matches(d, e) ==
  \/ d = e
  \/ /\ e # NULL_EVENT
     /\ \/ d = WILDCARD
        \/ /\ Len(d) >= 2
           /\ Last(d) = "*"
           /\ \A i \in 1..(Len(d) - 1) : d[i] # "*"
           /\ IsPrefix(Front(d), e)

\* C10: getCandidates(node, E) is, in declaration order, the transitions of
\* the node whose event type is E or, when E is not the null event, is "*"
\* or is p.* with the tokens of p a prefix of the tokens of E and no "*"
\* among them.
C10_Candidates ==
  \A n \in Nodes : \A e \in EventTypes :
    getCandidates(n, e, FALSE) =
      SelectSeq(Node(n).transitions, LAMBDA t : Matches(t.eventType, e))

\* the transition with descriptor a.b.* was taken for the event a.b.c, in
\* a node that also declares a.*.b, *.*, a.* and *
C10_Witness ==
  /\ ms.kind = "step"
  /\ ms.event = <<"a", "b", "c">>
  /\ Len(ms.taken) = 1
  /\ ms.taken[1].eventType = <<"a", "b", "*">>
  /\ Len(Node(ms.taken[1].source).transitions) = 6

\* C11: the root is never in the exit set of a microstep: no exit action of
\* the root and no stop action for an invocation of the root is produced.
C11_RootNeverExited ==
  Stepped =>
    /\ ~InSeq(root, ms.exitSet)
    /\ \A i \in 1..Len(ms.raw) :
         /\ ~InSeq(ms.raw[i], Node(root).exit)
         /\ ms.raw[i].type = "stop" => ~InSeq(ms.raw[i].to, Node(root).invoke)

\* the invocation id is invoked at position i of the actions and stopped
\* later, and not invoked again after that stop
InvokedThenStopped(actions, i) ==
  /\ actions[i].type = "invoke"
  /\ \E j \in (i + 1)..Len(actions) :
       /\ actions[j].type = "stop"
       /\ actions[j].to = actions[i].to
       /\ \A k \in (j + 1)..Len(actions) :
            ~(actions[k].type = "invoke" /\ actions[k].to = actions[i].to)

RECURSIVE InFinalConfiguration(_, _)
InFinalConfiguration(configuration, n) ==
  IF Node(n).type = "compound"
    THEN \E c \in Range(Node(n).states) :
           Node(c).type = "final" /\ InSeq(c, configuration)
  ELSE IF Node(n).type = "parallel"
    THEN \A c \in Range(Node(n).states) :
           isHistoryNode(c) \/ InFinalConfiguration(configuration, c)
  ELSE FALSE

\* C13: state.done is true exactly when the root is compound and one of its
\* final children is active, or the root is parallel and every region of
\* the root is done by the same rule; history children are not regions.
C13_DoneIffFinalConfiguration ==
  pc # "init" => (Done(st) <=> InFinalConfiguration(st.configuration, root))

Count(s, x) == Cardinality({i \in 1..Len(s) : s[i] = x})

\* the final children of n that the last microstep entered
FinalChildrenEntered(n) ==
  {f \in Range(ms.entrySet) : Node(f).type = "final" /\ Node(f).parent = n}

\* the last microstep entered a final child of a compound region of g
RegionBecameFinal(g) ==
  \E p \in Nodes :
    /\ Node(p).parent = g
    /\ Node(p).type = "compound"
    /\ FinalChildrenEntered(p) # {}

\* C14: a microstep that enters a final child of a compound state P other
\* than the root queues done.state.<P.id> once; it queues
\* done.state.<id of P's parent> once as well when that parent is a parallel
\* state all of whose regions are in a final state after the microstep; it
\* queues no done.state event for the root when the root is compound.
C14_DoneStateEvents ==
  Stepped =>
    \A n \in Nodes :
      Count(ms.raisedQueue, done(n)) =
        IF Node(n).type = "compound"
          THEN (IF n = root THEN 0 ELSE Cardinality(FinalChildrenEntered(n)))
        ELSE IF /\ Node(n).type = "parallel"
                /\ RegionBecameFinal(n)
                /\ InFinalConfiguration(st.configuration, n)
          THEN 1
        ELSE 0

\* what a history node h of the exited node p records from configuration
Recorded(h, p, configuration) ==
  IF Node(h).history = "deep"
    THEN {sn \in Range(configuration) :
            isAtomicStateNode(sn) /\ sn # p /\ InSeq(p, getProperAncestors(sn, 0))}
    ELSE {sn \in Range(configuration) : Node(sn).parent = p}

\* C15: a microstep that exits node P sets historyValue[h], for every
\* history child h of P, to the children of P (shallow) or the atomic
\* descendants of P (deep) in the configuration before the microstep; a
\* microstep that takes transitions and does not exit P leaves
\* historyValue[h] as it was.
C15_HistoryRecordedOnExit ==
  (ms.kind = "step" /\ ms.taken # <<>>) =>
    \A h \in Nodes :
      isHistoryNode(h) =>
        IF InSeq(Node(h).parent, ms.exitSet)
          THEN /\ st.historyValue[h].has
               /\ Range(st.historyValue[h].nodes) =
                    Recorded(h, Node(h).parent, ms.pre.configuration)
          ELSE st.historyValue[h] = ms.pre.historyValue[h]

\* the parallel state with a deep history node was exited while one of its
\* regions had left its initial state, and the region's shallow history
\* node recorded as well
C15_Witness ==
  /\ ms.kind = "step"
  /\ \E h, g \in Nodes :
       /\ isHistoryNode(h) /\ Node(h).history = "deep"
       /\ isHistoryNode(g) /\ Node(g).history = "shallow"
       /\ InSeq(Node(h).parent, ms.exitSet)
       /\ InSeq(Node(g).parent, ms.exitSet)
       /\ Len(st.historyValue[h].nodes) = 2
       /\ \E i \in 1..2 :
            ~InSeq(st.historyValue[h].nodes[i],
                   getInitialStateNodes(Node(h).parent))

\* the node p and its descendants
Subtree(p) == {n \in Nodes : n = p \/ InSeq(p, getProperAncestors(n, 0))}

\* the node c with the descendants its default entry makes active
RECURSIVE DefaultDescendants(_)
DefaultDescendants(c) ==
  {c} \cup
  UNION {DefaultDescendants(d) :
           d \in IF Node(c).type = "compound" THEN Range(Node(c).initial.target)
                 ELSE IF Node(c).type = "parallel"
                   THEN {d \in Range(getChildren(c)) : ~isHistoryNode(d)}
                 ELSE {}}

\* the microstep took one transition, whose only target is history node h
TargetsHistory(h) ==
  /\ ms.kind = "step"
  /\ Len(ms.taken) = 1
  /\ ms.taken[1].target = <<h>>
  /\ isHistoryNode(h)

\* what is active below the parent of h is what st.historyValue[h] holds
RestoredFrom(h) ==
  LET p == Node(h).parent
      recorded == Range(st.historyValue[h].nodes)
  IN IF Node(h).history = "deep"
       THEN {sn \in Range(st.configuration) :
               isAtomicStateNode(sn) /\ sn \in Subtree(p) \ {p}} = recorded
       ELSE /\ {sn \in Range(st.configuration) : Node(sn).parent = p} = recorded
            /\ \A c \in recorded :
                 Range(st.configuration) \cap Subtree(c) = DefaultDescendants(c)

\* C16: a transition to history node h of parent P restores the record:
\* deep history makes the recorded atomic descendants of P the active
\* ones, shallow history the recorded child of P with its default
\* descendants; without a record the default target of h, or the initial
\* target of P, is entered.  Besides P's subtree and what leads to it from
\* inactive nodes, only nodes the transition exited are entered.
C16_HistoryRestored ==
  \A h \in Nodes :
    TargetsHistory(h) =>
      /\ IF st.historyValue[h].has
           THEN RestoredFrom(h)
           ELSE \A sn \in Range(resolveHistoryTarget(h)) : InSeq(sn, st.configuration)
      /\ \A n \in Range(ms.entrySet) :
           \/ n \in Subtree(Node(h).parent)
           \/ InSeq(n, ms.exitSet)
           \/ ~InSeq(n, ms.pre.configuration)

\* what a successful assign makes of context c; a throwing one leaves it
Effect(a, c) ==
  IF a.name = <<"inc">> THEN c + a.arg
  ELSE IF a.name = <<"set">> THEN a.arg
  ELSE c

\* the context the assigns among actions[1..i-1] produce from c0
RECURSIVE ContextBefore(_, _, _)
ContextBefore(actions, i, c0) ==
  IF i = 1 THEN c0
  ELSE IF actions[i - 1].type = "assign"
    THEN Effect(actions[i - 1], ContextBefore(actions, i - 1, c0))
  ELSE ContextBefore(actions, i - 1, c0)

NamesOf(actions) == [i \in 1..Len(actions) |-> actions[i].name]

\* the index of the first branch whose guard passes under context c, or 0
Chosen(branches, c) ==
  LET passing == {b \in 1..Len(branches) :
                    evaluateGuard(branches[b].guard, c, ms.event, ms.pre)}
  IN IF passing = {} THEN 0
     ELSE CHOOSE b \in passing : \A d \in passing : b <= d

\* the choose or pure action at raw[i] resolved to the branch that passes
\* under the context the assigns before it produce
BranchTaken(i) ==
  LET branches == ms.raw[i].sub
      c == ContextBefore(ms.raw, i, ms.pre.context)
  IN \A b \in 1..Len(branches) :
       \A k \in 1..Len(branches[b].actions) :
         InSeq(branches[b].actions[k].name, NamesOf(ms.resolved))
           <=> b = Chosen(branches, c)

\* C17: the context of the state a microstep produces is the result of
\* its assigns in list order; the exec of a custom action is bound to the
\* context produced by the assigns before it in the list; a choose or pure
\* action takes the branch that passes under the context produced by the
\* assigns before it.
C17_AssignOrder ==
  Stepped =>
    /\ st.context = ContextBefore(ms.resolved, Len(ms.resolved) + 1, ms.pre.context)
    /\ \A i \in 1..Len(ms.resolved) :
         ms.resolved[i].type = "custom" =>
           ms.resolved[i].arg = ContextBefore(ms.resolved, i, ms.pre.context)
    /\ \A i \in 1..Len(ms.raw) :
         ms.raw[i].type \in {"choose", "pure"} => BranchTaken(i)

\* a choose between two assigns took the branch that passes only after
\* the first assign, and its action is bound to the context in between
C17_Witness ==
  /\ ms.kind = "step"
  /\ \E i \in 1..Len(ms.raw) :
       /\ ms.raw[i].type = "choose"
       /\ Chosen(ms.raw[i].sub, ms.pre.context) # Chosen(ms.raw[i].sub, ms.pre.context + 1)
       /\ \E j \in 1..(i - 1) : ms.raw[j].type = "assign"
       /\ \E j \in (i + 1)..Len(ms.raw) : ms.raw[j].type = "assign"
  /\ \E k \in 1..Len(ms.resolved) :
       /\ ms.resolved[k].type = "custom"
       /\ ms.resolved[k].arg # ms.pre.context
       /\ ms.resolved[k].arg # st.context

Throwing(a) == a.type = "assign" /\ a.name = <<"throw">>

\* the actions of a list that resolution keeps in the resolved actions
Kept(a) ==
  /\ ~Throwing(a)
  /\ a.type # "raise"
  /\ ~(a.type = "send" /\ a.to = INTERNAL)

\* the microstep resolved a list without choose and pure in which an
\* assign throws
AssignThrew ==
  /\ Stepped
  /\ \E i \in 1..Len(ms.raw) : Throwing(ms.raw[i])
  /\ \A i \in 1..Len(ms.raw) : ms.raw[i].type \notin {"choose", "pure"}

\* C18: when an assign throws, the context stays what the assigns before
\* it made it, the failing assign is not among the resolved actions, the
\* other actions of the list are resolved as without it, and one
\* error.execution event per failing assign is raised in the microstep.
C18_AssignThrows ==
  AssignThrew =>
    /\ \A i \in 1..Len(ms.resolved) : ~Throwing(ms.resolved[i])
    /\ NamesOf(ms.resolved) = NamesOf(SelectSeq(ms.raw, Kept))
    /\ st.context = ContextBefore(ms.raw, Len(ms.raw) + 1, ms.pre.context)
    /\ \A i \in 1..Len(ms.raw) :
         \A k \in 1..Len(ms.resolved) :
           (/\ Throwing(ms.raw[i]) /\ i < Len(ms.raw)
            /\ ms.raw[i + 1].type = "custom"
            /\ ms.resolved[k].name = ms.raw[i + 1].name) =>
             ms.resolved[k].arg = ContextBefore(ms.raw, i, ms.pre.context)
    /\ Count(ms.raisedQueue, errorExecution) =
         Cardinality({i \in 1..Len(ms.raw) : Throwing(ms.raw[i])})

\* an assign threw between two assigns that succeeded, with a custom
\* action on either side of it
C18_Witness ==
  /\ AssignThrew
  /\ \E i \in 2..(Len(ms.raw) - 1) :
       /\ Throwing(ms.raw[i])
       /\ ms.raw[i - 1].type = "custom" /\ ms.raw[i + 1].type = "custom"
       /\ \E j \in 1..(i - 1) : ms.raw[j].type = "assign"
       /\ \E j \in (i + 1)..Len(ms.raw) : ms.raw[j].type = "assign"
  /\ st.context = ms.pre.context + 2
  /\ ms.raisedQueue = <<errorExecution>>

\* machine.transition was called and its event enabled no transition; the
\* primed state is the one the call produces
Ignored == pc = "idle" /\ pc' = "loop" /\ ms'.kind = "inert"

\* C19: the state produced for an ignored event has the value, context,
\* configuration, children and historyValue of the state the event was
\* applied to, and no actions.
C19_IgnoredEventFrame ==
  [][Ignored =>
       /\ st'.value = st.value
       /\ st'.context = st.context
       /\ st'.configuration = st.configuration
       /\ st'.children = st.children
       /\ st'.historyValue = st.historyValue
       /\ st'.actions = <<>>]_vars

\* the fields of a State the previous state must keep
Snapshot(state) ==
  [f \in {"value", "context", "event", "changed", "actions", "historyValue",
          "internalQueue"} |-> state[f]]

\* C20: machine.transition(s, e) leaves the value, context, event, changed,
\* actions, historyValue and _internalQueue of s as they were, whether or
\* not e enabled a transition.
C20_PreviousStateUntouched ==
  [][(pc = "idle" /\ pc' = "loop") =>
       Snapshot(LeftBehind(st, ms'.event)) = Snapshot(st)]_vars

\* the most iterations of macrostep's loop that Macro follows
MaxIterations == 6

\* macrostep as a function of the state and the event: the loop from
\* maybeNextState, the queue q and whether q is maybeNextState's own array
RECURSIVE LoopFrom(_, _, _, _)
LoopIterated(raisedEvent, shifted, maybeNextState, own, fuel, r) ==
  LoopFrom([r.state EXCEPT
              !.event = IF raisedEvent = NULL_EVENT THEN maybeNextState.event ELSE @,
              !.actions = Accumulated(maybeNextState.actions, @),
              !.internalQueue = IF r.same /\ own THEN shifted \o @ ELSE @],
           shifted \o r.state.internalQueue, r.same /\ own, fuel - 1)

LoopShifted(raisedEvent, shifted, maybeNextState, own, fuel) ==
  LoopIterated(raisedEvent, shifted, maybeNextState, own, fuel,
               MachineMicrostep(maybeNextState, raisedEvent))

LoopFrom(maybeNextState, q, own, fuel) ==
  IF q = <<>> \/ Done(maybeNextState) \/ fuel = 0 THEN maybeNextState
  ELSE LoopShifted(Head(q), Tail(q),
                   IF own THEN [maybeNextState EXCEPT !.internalQueue = Tail(q)]
                   ELSE maybeNextState,
                   own, fuel)

MacroFrom(r) == LoopFrom(r.state, r.state.internalQueue, TRUE, MaxIterations)

\* machine.transition(state, event)
Macro(state, event) == MacroFrom(MachineMicrostep(state, event))

\* a state value as a set of entries, the order of its keys left out
RECURSIVE Unordered(_)
Unordered(v) ==
  [str |-> v.str,
   map |-> {<<v.map[i][1], Unordered(v.map[i][2])>> : i \in 1..Len(v.map)}]

\* equal state value, context and history value
Alike(s1, s2) ==
  /\ Unordered(s1.value) = Unordered(s2.value)
  /\ s1.context = s2.context
  /\ s1.historyValue = s2.historyValue

\* equal state value, context and action sequence
SameOutcome(n1, n2) ==
  /\ Unordered(n1.value) = Unordered(n2.value)
  /\ n1.context = n2.context
  /\ n1.actions = n2.actions

\* two states, when alike, have the same outcome for every event
Deterministic(s1, s2) ==
  Alike(s1, s2) =>
    \A e \in M.events : SameOutcome(Macro(s1, e), Macro(s2, e))

EnteredInDifferentOrder(s1, s2) ==
  /\ Alike(s1, s2)
  /\ s1.configuration # s2.configuration
  /\ \E e \in M.events : Len(Macro(s1, e).actions) >= 3

Resumes(created, state) ==
  /\ created.state.value = state.value
  /\ "configuration" \in created.fields
  /\ created.state.configuration = state.configuration
  /\ created.state.context = state.context
  /\ created.state.historyValue = state.historyValue

\* C22: for every state s the machine produces, State.create(s.toJSON())
\* has the value, the configuration, the context and the history value
\* of s.
C22_Rehydrated == pc # "init" => Resumes(create(toJSON(st)), st)

\* the first guard-passing candidate at node n or else at its nearest
\* proper ancestor that has one
RECURSIVE Nearest(_, _, _)
Nearest(n, state, e) ==
  IF next(n, state, e) # <<>> THEN next(n, state, e)
  ELSE IF Node(n).parent = 0 THEN <<>>
  ELSE Nearest(Node(n).parent, state, e)

\* C28: the transitions enabled for an event contain, for each active
\* atomic node, the first guard-passing candidate found at that node or
\* else at its nearest proper ancestor that has one, also when another
\* region of a parallel state handles the event.
C28_EnabledPerAtomicNode ==
  Selected =>
    \A a \in Range(ms.pre.configuration) :
      isAtomicStateNode(a) =>
        Range(Nearest(a, ms.pre, ms.event)) \subseteq Range(ms.enabled)

\* the exit sets of two transitions share a state node
Conflicting(t1, t2, configuration, hv) ==
  hasIntersection(computeExitSet(<<t1>>, configuration, hv),
                  computeExitSet(<<t2>>, configuration, hv))

IndexIn(t, s) == CHOOSE i \in 1..Len(s) : s[i] = t

\* kept is a sub-list of enabled in the order of enabled
InInputOrder(kept, enabled) ==
  /\ Range(kept) \subseteq Range(enabled)
  /\ \A i, j \in 1..Len(kept) :
       i < j => IndexIn(kept[i], enabled) < IndexIn(kept[j], enabled)

ConflictFree(kept, configuration, hv) ==
  \A i, j \in 1..Len(kept) :
    i < j => ~Conflicting(kept[i], kept[j], configuration, hv)

\* of enabled[i] and enabled[j], i before j, the one whose source is a
\* descendant of the other's source, otherwise the earlier one
Preferred(enabled, i, j) ==
  IF isDescendant(enabled[j].source, enabled[i].source) THEN j ELSE i

\* of two conflicting transitions the preferred one is kept, when it
\* conflicts with no third enabled transition
PreferredKept(enabled, kept, configuration, hv) ==
  \A i, j \in 1..Len(enabled) :
    (/\ i < j
     /\ Conflicting(enabled[i], enabled[j], configuration, hv)
     /\ \A k \in 1..Len(enabled) \ {i, j} :
          ~Conflicting(enabled[Preferred(enabled, i, j)], enabled[k],
                       configuration, hv))
      => InSeq(enabled[Preferred(enabled, i, j)], kept)

\* a transition that conflicts with no kept transition is kept
UnconflictedKept(enabled, kept, configuration, hv) ==
  \A i \in 1..Len(enabled) :
    (\A k \in 1..Len(kept) :
       kept[k] # enabled[i]
         => ~Conflicting(enabled[i], kept[k], configuration, hv))
      => InSeq(enabled[i], kept)

ConflictsResolved(enabled, kept, configuration, hv) ==
  /\ InInputOrder(kept, enabled)
  /\ ConflictFree(kept, configuration, hv)
  /\ PreferredKept(enabled, kept, configuration, hv)
  /\ UnconflictedKept(enabled, kept, configuration, hv)

\* the list selectEventlessTransitions hands to removeConflictingTransitions
EventlessEnabled(state) ==
  EventlessOfAtomic(SelectSeq(state.configuration, isAtomicStateNode), state)

\* C29: removeConflictingTransitions returns a sub-list of the enabled
\* transitions in input order in which no two transitions have intersecting
\* exit sets; of two conflicting transitions the one whose source is a
\* descendant of the other's is kept, otherwise the earlier one; and a
\* transition that conflicts with no kept transition is kept -- at both of
\* its calls, in microstep and in selectEventlessTransitions.
C29_ConflictsRemoved ==
  /\ Selected =>
       ConflictsResolved(ms.enabled, ms.taken, getConfiguration(ms.pre.configuration),
                ms.pre.historyValue)
  /\ pc # "init" =>
       ConflictsResolved(EventlessEnabled(st), selectEventlessTransitions(st),
                st.configuration, st.historyValue)

\* two nodes of the config have the same id
DuplicatedId(config) ==
  \E i, j \in 1..Len(config) : i # j /\ IdOf(config, i) = IdOf(config, j)

\* C27: constructing a machine in which two state nodes have the same id
\* fails; in a machine that was produced every node is the one the id map
\* holds for its id.
C27_DuplicateIdRejected ==
  build.status = "built" =>
    /\ ~DuplicatedId(build.config)
    /\ \A i \in 1..Len(build.config) :
         MapGet(build.idMap, IdOf(build.config, i)) = i

AllStringTargetsRelative(transitionConfig) ==
  \A i \in 1..Len(transitionConfig.target) :
    transitionConfig.target[i].isString
      => isInternalTarget(transitionConfig.target[i])

SomeStringTarget(transitionConfig) ==
  \E i \in 1..Len(transitionConfig.target) : transitionConfig.target[i].isString

\* what the config says when internal is not given: no target at all, or
\* string targets that all begin with the delimiter
RelativeOnly(transitionConfig) ==
  \/ ~transitionConfig.hasTarget
  \/ SomeStringTarget(transitionConfig) /\ AllStringTargetsRelative(transitionConfig)

\* the transitions formatTransition returned
Compiled ==
  {build.transitions[k] : k \in
     {k \in 1..Len(build.transitions) : ~build.transitions[k].transition.threw}}

\* C30: a compiled transition is internal only if its config says
\* internal: true or, saying nothing, has no string target that does not
\* begin with the delimiter; and it is internal if its config says
\* internal: true or, saying nothing, has only string targets that begin
\* with the delimiter.
C30_InternalIffAllRelative ==
  \A c \in Compiled :
    /\ c.transition.internal =>
         \/ c.config.internal = "true"
         \/ c.config.internal = "absent" /\ AllStringTargetsRelative(c.config)
    /\ (\/ c.config.internal = "true"
        \/ c.config.internal = "absent" /\ RelativeOnly(c.config))
         => c.transition.internal

(***************************************************************************)
(* The interpreter: an actor that runs a machine.  It keeps a mailbox of   *)
(* events, a map from send ids to timers and its invoked children.  An     *)
(* envelope is an event with its origin ("external", "self", "timer" or    *)
(* the id of a child), the number of its arrival and whether its sender    *)
(* had been stopped when it sent it.  What the actor and its children do   *)
(* is noted in obs, each note with the number of events handled so far.    *)
(***************************************************************************)
MaxSends == 4

MaxEmits == 2

\* actions.after(delayRef, id): `xstate.after(${delayRef})#${id}`, in tokens
after(delayRef, id) ==
  <<"xstate", "after(" \o delayRef \o ")#" \o Head(id)>> \o Tail(id)

mutateEntryExit(stateNode, delay, eventType) ==
  [stateNode EXCEPT !.entry = Append(@, Act("send", eventType, "", delay)),
                    !.exit = Append(@, Act("cancel", eventType, "", 0))]

\* a state node whose after config is {[delay]: target}: the delayed
\* transition follows the transitions of on
getDelayedTransitions(stateNode, source, id, delay, target) ==
  [mutateEntryExit(stateNode, delay, after(ToString(delay), id)) EXCEPT
     !.transitions =
        Append(@, Tr(source, after(ToString(delay), id), NoGuard, <<>>,
                     target, FALSE))]

\* what a child does: it is handed the parent's events (autoForward), emits
\* syncEmits as it starts, may emit asyncEmit at any later time until it is
\* disposed of, and is done with its doneAt-th event (0: never)
Child(autoForward, syncEmits, asyncEmit, hasDisposer, doneAt) ==
  [autoForward |-> autoForward, syncEmits |-> syncEmits,
   asyncEmit |-> asyncEmit, hasDisposer |-> hasDisposer, doneAt |-> doneAt]

Acting(machine, ids, actors) ==
  [key |-> machine.key, nodes |-> machine.nodes, contexts |-> machine.contexts,
   events |-> machine.events, scxml |-> machine.scxml, actorIds |-> ids,
   actors |-> actors]

\* useMachine.test.tsx:797-851, and AGAIN to leave and enter doingStuff
AppNodes ==
  << [N("app", "compound", 0, <<2, 3>>, <<2>>) EXCEPT !.cid = "app"],
     [Leaf("idle", 1) EXCEPT !.transitions = <<On(2, "START", 3)>>],
     getDelayedTransitions(
        [Leaf("doingStuff", 1) EXCEPT
            !.entry = <<Custom("entered")>>,
            !.exit = <<Custom("exited")>>,
            !.transitions = <<On(3, "STOP", 2), On(3, "AGAIN", 3)>>],
        3, <<"app", "doingStuff">>, 2, <<2>>) >>

\* part_002:416-460; the count that ends counting is 2
IntervalNodes ==
  << [N("interval", "compound", 0, <<2, 3, 4>>, <<2>>) EXCEPT !.cid = "interval"],
     [Leaf("counting", 1) EXCEPT
         !.invoke = <<"intervalService">>,
         !.transitions =
            << Tr(2, <<"INC">>, NoGuard, <<AssignInc>>, <<>>, TRUE),
               On(2, "SKIP", 3),
               Tr(2, NULL_EVENT, G("ctxEq", 2), <<>>, <<4>>, FALSE) >>],
     getDelayedTransitions(
        [Leaf("wait", 1) EXCEPT
            !.transitions = <<Tr(3, <<"INC">>, NoGuard, <<AssignInc>>, <<>>, TRUE)>>],
        3, <<"interval", "wait">>, 1, <<4>>),
     Final("finished", 1) >>

\* part_002:1649-1723, the callback's data part of the event's name; first
\* also sends an event to itself, and last waits for FINISH
CallbackNodes ==
  << [N("callback", "compound", 0, <<2, 3, 4, 5>>, <<2>>) EXCEPT !.cid = "callback"],
     [Leaf("pending", 1) EXCEPT !.transitions = <<On(2, "BEGIN", 3)>>],
     [Leaf("first", 1) EXCEPT
         !.invoke = <<"someCallback">>,
         !.entry = <<SendTo(<<"SELF">>, "")>>,
         !.transitions =
            << Tr(3, <<"CALLBACK40">>, NoGuard, <<Custom("got40")>>, <<>>, TRUE),
               Tr(3, <<"SELF">>, NoGuard, <<Custom("gotSelf")>>, <<>>, TRUE),
               On(3, "CALLBACK42", 4) >>],
     [Leaf("last", 1) EXCEPT
         !.transitions =
            << On(4, "FINISH", 5),
               Tr(4, <<"SELF">>, NoGuard, <<Custom("gotSelf")>>, <<>>, TRUE) >>],
     Final("over", 1) >>

\* part_002:593-692
ForwardNodes ==
  << [N("parent", "compound", 0, <<2, 3, 4>>, <<2>>) EXCEPT !.cid = "parent"],
     [Leaf("idle", 1) EXCEPT !.transitions = <<On(2, "START", 3)>>],
     [Leaf("invokeChild", 1) EXCEPT
         !.invoke = <<"child">>,
         !.transitions =
            << Tr(3, <<"INCREMENT">>, NoGuard, <<Custom("got")>>, <<>>, TRUE),
               On(3, "LEAVE", 2),
               Tr(3, <<"done", "invoke", "child">>, NoGuard, <<>>, <<4>>, FALSE) >>],
     Final("done", 1) >>

ActorMachines ==
  { Acting(Machine("app", AppNodes, {0},
                   {<<"START">>, <<"STOP">>, <<"AGAIN">>}, FALSE),
           <<>>, <<>>),
    Acting(Machine("interval", IntervalNodes, {0}, {<<"SKIP">>}, FALSE),
           <<"intervalService">>,
           [c \in {"intervalService"} |-> Child(FALSE, <<>>, <<"INC">>, TRUE, 0)]),
    Acting(Machine("leaky", IntervalNodes, {0}, {<<"SKIP">>}, FALSE),
           <<"intervalService">>,
           [c \in {"intervalService"} |-> Child(FALSE, <<>>, <<"INC">>, FALSE, 0)]),
    Acting(Machine("callback", CallbackNodes, {0},
                   {<<"BEGIN">>, <<"FINISH">>}, FALSE),
           <<"someCallback">>,
           [c \in {"someCallback"} |->
              Child(FALSE, <<<<"CALLBACK40">>, <<"CALLBACK41">>, <<"CALLBACK42">>>>,
                    <<>>, FALSE, 0)]),
    Acting(Machine("parent", ForwardNodes, {0},
                   {<<"START">>, <<"INCREMENT">>, <<"LEAVE">>}, FALSE),
           <<"child">>,
           [c \in {"child"} |-> Child(TRUE, <<>>, <<>>, FALSE, 3)]) }

NoChild == [status |-> "none", disposed |-> FALSE, got |-> 0, emits |-> 0]

\* during: how many events the actor had taken up when this one arrived
Envelope(name, origin, late, n, during) ==
  [name |-> name, origin |-> origin, late |-> late, seq |-> n, during |-> during]

\* A faulty Enqueued that handles the newest event first.
Jumped(a, name, origin, late) ==
  [a EXCEPT !.mailbox = <<Envelope(name, origin, late, a.arrived + 1, Len(a.handled))>> \o @,
            !.arrived = @ + 1]

\* the scheduler: an event is put behind the events that wait
Enqueued(a, name, origin, late) ==
  [a EXCEPT !.mailbox = Append(@, Envelope(name, origin, late, a.arrived + 1, Len(a.handled))),
            !.arrived = @ + 1]

Observed(a, who, what) ==
  [a EXCEPT !.obs = Append(@, [who |-> who, what |-> what, at |-> Len(a.handled)])]

\* a counting child is done with its doneAt-th event and tells its parent
ChildCounted(a, c) ==
  IF M.actors[c].doneAt # 0 /\ a.children[c].got = M.actors[c].doneAt
    THEN Enqueued([a EXCEPT !.children[c].status = "done"],
                  <<"done", "invoke", c>>, c, FALSE)
    ELSE a

\* child.send(event)
ChildReceived(a, c, name) ==
  IF a.children[c].status # "running" THEN a
  ELSE ChildCounted(Observed([a EXCEPT !.children[c].got = @ + 1], c, name), c)

RECURSIVE ForwardAll(_, _, _)
ForwardAll(a, ids, name) ==
  IF ids = <<>> THEN a
  ELSE ForwardAll(ChildReceived(a, Head(ids), name), Tail(ids), name)

ForwardsTo(a, c) == M.actors[c].autoForward /\ a.children[c].status = "running"

\* interpreter.forward(event): to every child in forwardTo
Forwarded(a, env) ==
  ForwardAll(a, SelectSeq(M.actorIds, LAMBDA c : ForwardsTo(a, c)), env.name)

Untracked(timers, id) ==
  [k \in 1..Len(timers) |->
     IF timers[k].id = id THEN [timers[k] EXCEPT !.tracked = FALSE] ELSE timers[k]]

\* interpreter.defer: delayedEventsMap[sendAction.id] = setTimeout(...)
Scheduled(a, sendAction) ==
  [a EXCEPT !.timers =
     Append(Untracked(@, sendAction.name),
            [id |-> sendAction.name, event |-> sendAction.name,
             left |-> sendAction.arg, at |-> Len(a.handled), tracked |-> TRUE])]

\* A faulty Cancelled that leaves the timer armed.
NotCancelled(a, cancelAction) == a

\* interpreter.cancel(sendId): clearTimeout and delete delayedEventsMap[sendId]
Cancelled(a, cancelAction) ==
  [a EXCEPT !.timers =
     SelectSeq(@, LAMBDA t : ~(t.tracked /\ t.id = cancelAction.name))]

\* A faulty Received that listens to a stopped child.
Overheard(a, c, name, late) == Enqueued(a, name, c, late)

\* the receive callback handed to a child: deaf once the child is stopped
Received(a, c, name, late) ==
  IF a.children[c].status = "running" THEN Enqueued(a, name, c, late) ELSE a

RECURSIVE EmitAll(_, _, _)
EmitAll(a, c, events) ==
  IF events = <<>> THEN a
  ELSE EmitAll(Received(a, c, Head(events), a.children[c].status # "running"),
               c, Tail(events))

\* interpreter.spawn of an invoked child: it runs at once
StartedChild(a, c) ==
  EmitAll([a EXCEPT !.children[c] = [NoChild EXCEPT !.status = "running"]],
          c, M.actors[c].syncEmits)

\* interpreter.stopChild: child.stop() runs the child's disposer
StoppedChild(a, c) ==
  [a EXCEPT !.children[c].status = "stopped",
            !.children[c].disposed = M.actors[c].hasDisposer]

\* interpreter.exec(action)
Exec(a, action) ==
  CASE action.type = "send" ->
         IF action.arg > 0 THEN Scheduled(a, action)
         ELSE IF action.to = "" THEN Enqueued(a, action.name, "self", FALSE)
         ELSE ChildReceived(a, action.to, action.name)
    [] action.type = "cancel" -> Cancelled(a, action)
    [] action.type = "invoke" -> StartedChild(a, action.to)
    [] action.type = "stop" -> StoppedChild(a, action.to)
    [] action.type = "custom" -> Observed(a, "actor", Head(action.name))
    [] OTHER -> a

RECURSIVE ExecAll(_, _)
ExecAll(a, actions) ==
  IF actions = <<>> THEN a ELSE ExecAll(Exec(a, Head(actions)), Tail(actions))

StoppedChildren(a) ==
  [c \in DOMAIN a.children |->
     IF a.children[c].status = "running"
       THEN [a.children[c] EXCEPT !.status = "stopped",
                                  !.disposed = M.actors[c].hasDisposer]
       ELSE a.children[c]]

\* interpreter.update: a done state stops the interpreter, which clears its
\* scheduler and its timers and stops its children
Finished(a) ==
  IF Done(a.state)
    THEN [a EXCEPT !.status = "stopped", !.mailbox = <<>>, !.timers = <<>>,
                   !.children = StoppedChildren(a)]
    ELSE a

Transitioned(a, env, nextState) ==
  ExecAll([a EXCEPT !.state = nextState, !.handled = Append(@, env)],
          nextState.actions)

Updated(a, env) == Finished(Transitioned(a, env, Macro(a.state, env.name)))

\* A faulty Handled that forwards an event after the actor's own actions.
HandledThenForwarded(a, env) == Forwarded(Updated(a, env), env)

\* the task interpreter.send schedules: forward, transition, update
Handled(a, env) == Updated(Forwarded(a, env), env)

Launched(a, initialState) ==
  Finished(ExecAll([a EXCEPT !.status = "running", !.state = initialState],
                   initialState.actions))

ActorInit ==
  /\ mach \in ActorMachines
  /\ pc = "off"
  /\ st = StateFrom(0)
  /\ queue = <<>>
  /\ alias = FALSE
  /\ ms = NoStep
  /\ macroActions = <<>>
  /\ build = NotBuilding
  /\ actor = [status |-> "notStarted", state |-> StateFrom(0), mailbox |-> <<>>,
              timers |-> <<>>, children |-> [c \in DOMAIN mach.actors |-> NoChild],
              arrived |-> 0, handled |-> <<>>, obs |-> <<>>, sends |-> 0]
  /\ hook = NotRendered

Rest == UNCHANGED <<mach, pc, st, queue, alias, ms, macroActions, build, hook>>

\* interpreter.start()
ActorStart ==
  /\ actor.status = "notStarted"
  /\ actor' = Launched(actor,
                 MacroFrom(resolveMicroTransition(<<>>, actor.state, FALSE, initEvent)))
  /\ Rest

\* interpreter.send(event) from outside, between two tasks
Send(event) ==
  /\ actor.status = "running"
  /\ actor.mailbox = <<>>
  /\ actor.sends < MaxSends
  /\ actor' = Enqueued([actor EXCEPT !.sends = @ + 1], event, "external", FALSE)
  /\ Rest

\* the scheduler takes the event that waited longest
Process ==
  /\ actor.status = "running"
  /\ actor.mailbox # <<>>
  /\ actor' = Handled([actor EXCEPT !.mailbox = Tail(@)], Head(actor.mailbox))
  /\ Rest

\* time passes while no timer is due
Tick ==
  /\ actor.status = "running"
  /\ actor.mailbox = <<>>
  /\ actor.timers # <<>>
  /\ \A k \in 1..Len(actor.timers) : actor.timers[k].left > 0
  /\ actor' = [actor EXCEPT !.timers =
                  [k \in 1..Len(@) |-> [@[k] EXCEPT !.left = @ - 1]]]
  /\ Rest

\* a due timer sends its event
TimerFire(k) ==
  /\ actor.status = "running"
  /\ actor.mailbox = <<>>
  /\ k \in 1..Len(actor.timers)
  /\ actor.timers[k].left = 0
  /\ actor' = Enqueued([actor EXCEPT !.timers =
                           SubSeq(@, 1, k - 1) \o SubSeq(@, k + 1, Len(@))],
                       actor.timers[k].event, "timer", FALSE)
  /\ Rest

\* a child that is not disposed of calls back, whether or not it was stopped
ChildEmit(c) ==
  /\ actor.status = "running"
  /\ actor.mailbox = <<>>
  /\ c \in DOMAIN actor.children
  /\ M.actors[c].asyncEmit # <<>>
  /\ actor.children[c].status # "none"
  /\ ~actor.children[c].disposed
  /\ actor.children[c].emits < MaxEmits
  /\ actor' = Received([actor EXCEPT !.children[c].emits = @ + 1], c,
                       M.actors[c].asyncEmit,
                       actor.children[c].status # "running")
  /\ Rest

ActorNext ==
  \/ ActorStart
  \/ \E event \in M.events : Send(event)
  \/ Process
  \/ Tick
  \/ \E k \in 1..2 : TimerFire(k)
  \/ \E c \in {"intervalService", "someCallback", "child"} : ChildEmit(c)

ActorSpec == ActorInit /\ [][ActorNext]_vars


\* the delayed sends getDelayedTransitions put into the entry of a node
DelayedSends(n) == SelectSeq(Node(n).entry, LAMBDA x : x.type = "send" /\ x.arg > 0)

Armed(sendAction) == SelectSeq(actor.timers, LAMBDA t : t.event = sendAction.name)

Noted(who, what) == SelectSeq(actor.obs, LAMBDA o : o.who = who /\ o.what = what)

Active(n) == InSeq(n, actor.state.configuration)

\* the delayed events that ran out and wait in the mailbox
Due(sendAction) ==
  SelectSeq(actor.mailbox, LAMBDA e : e.origin = "timer" /\ e.name = sendAction.name)

\* while a node is active its delayed event is armed or due, once: armed
\* under the id the exit cancels, with no more than the delay to go; while
\* the node is not active the event is neither armed nor due
ArmedWhileActive(n, sendAction) ==
  IF Active(n)
    THEN /\ Len(Armed(sendAction)) + Len(Due(sendAction)) = 1
         /\ \A k \in 1..Len(Armed(sendAction)) :
               /\ Armed(sendAction)[k].tracked
               /\ Armed(sendAction)[k].id = sendAction.name
               /\ Armed(sendAction)[k].left <= sendAction.arg
         /\ \E j \in 1..Len(Node(n).exit) :
               /\ Node(n).exit[j].type = "cancel"
               /\ Node(n).exit[j].name = sendAction.name
    ELSE Armed(sendAction) = <<>> /\ Due(sendAction) = <<>>

\* the timer of doingStuff was armed by its latest entry
ArmedByLatestEntry ==
  (M.key = "app" /\ Active(3)) =>
     /\ Noted("actor", "entered") # <<>>
     /\ \A k \in 1..Len(actor.timers) :
           actor.timers[k].at = Last(Noted("actor", "entered")).at

\* a delayed event that waits in the mailbox is the event of an active node
DeliveredWhileActive(env) ==
  env.origin = "timer" =>
     \E n \in Nodes : /\ Active(n)
                      /\ \E j \in 1..Len(DelayedSends(n)) :
                            DelayedSends(n)[j].name = env.name

\* C23: a state with an after delay has exactly one delayed event, armed under
\* the id its exit cancels or just run out, while it is active and none while
\* it is not; the timer is the one its latest entry armed, so an earlier activation's event is
\* never delivered once the state was left, and a delayed event is delivered
\* only to a configuration that holds its state.
C23_DelayedEventPerActivation ==
  actor.status = "running" =>
     /\ \A n \in Nodes : \A j \in 1..Len(DelayedSends(n)) :
           ArmedWhileActive(n, DelayedSends(n)[j])
     /\ ArmedByLatestEntry
     /\ \A k \in 1..Len(actor.mailbox) : DeliveredWhileActive(actor.mailbox[k])

\* doingStuff was left and entered again, and the timer its second entry
\* armed has run out and brought the machine back to idle
C23_Witness ==
  /\ M.key = "app"
  /\ actor.status = "running"
  /\ Len(Noted("actor", "entered")) >= 2
  /\ Len(Noted("actor", "exited")) = Len(Noted("actor", "entered"))
  /\ actor.handled # <<>>
  /\ Last(actor.handled).origin = "timer"
  /\ Last(Noted("actor", "exited")).at = Len(actor.handled)
  /\ Active(2)


\* C24: the actor takes up its events one at a time in the order of their
\* arrival: the k-th event to arrive is the k-th it handles, the events that
\* wait are the latest arrivals in their order, and an event that arrived
\* while another was handled (sent by the actor to itself or sent back by a
\* child as it started) is handled after that one.
C24_FifoRunToCompletion ==
  /\ \A i \in 1..Len(actor.handled) :
        /\ actor.handled[i].seq = i
        /\ actor.handled[i].during < i
  /\ \A k \in 1..Len(actor.mailbox) :
        /\ actor.mailbox[k].seq = Len(actor.handled) + k
        /\ actor.mailbox[k].during <= Len(actor.handled)
  /\ \A i \in 1..Len(actor.obs) : \A j \in i..Len(actor.obs) :
        actor.obs[i].at <= actor.obs[j].at

\* BEGIN started the callback, whose three events and the actor's event to
\* itself arrived while BEGIN was handled and were handled after it, in
\* the order of their arrival
C24_Witness ==
  /\ M.key = "callback"
  /\ Len(actor.handled) >= 5
  /\ actor.handled[1].name = <<"BEGIN">>
  /\ \A i \in 2..5 : actor.handled[i].during = 1
  /\ \A i \in 2..4 : actor.handled[i].origin = "someCallback"
  /\ actor.handled[5].origin = "self"
  /\ Len(Noted("actor", "got40")) = 1
  /\ Noted("actor", "got40")[1].at = 2
  /\ Len(Noted("actor", "gotSelf")) = 1
  /\ Noted("actor", "gotSelf")[1].at = 5


\* the child is invoked by a node of the configuration
Invoked(c) == \E n \in Nodes : Active(n) /\ InSeq(c, Node(n).invoke)

\* a child whose invoking state is not active does not run, and a stopped
\* child's disposer was run if it has one
StoppedOnExit(c) ==
  /\ ~Invoked(c) => actor.children[c].status \in {"none", "stopped", "done"}
  /\ actor.children[c].status = "stopped" =>
        actor.children[c].disposed = M.actors[c].hasDisposer
  /\ (Invoked(c) /\ actor.status = "running") =>
        actor.children[c].status \in {"running", "done"}

NewNotes == SubSeq(actor'.obs, Len(actor.obs) + 1, Len(actor'.obs))

\* the step that handles the first event of the mailbox: a child that is
\* handed the parent's events and ran before the step notes the event
\* before anything else is noted, and once; a child that did not run before
\* the step notes nothing, though the step may start it
ForwardedFirst(c) ==
  IF ForwardsTo(actor, c)
    THEN /\ NewNotes # <<>>
         /\ NewNotes[1] = [who |-> c, what |-> Head(actor.mailbox).name,
                           at |-> Len(actor.handled)]
         /\ \A k \in 2..Len(NewNotes) : NewNotes[k].who # c
    ELSE \A k \in 1..Len(NewNotes) : NewNotes[k].who # c

\* the notes of INCREMENT by the child and by the parent's action
IncrementNotes ==
  SelectSeq(actor.obs,
            LAMBDA o : \/ o.who = "child" /\ o.what = <<"INCREMENT">>
                       \/ o.who = "actor" /\ o.what = "got")

Alternates ==
  M.key = "parent" =>
     /\ Len(IncrementNotes) % 2 = 0
     /\ \A k \in 1..Len(IncrementNotes) :
           /\ IncrementNotes[k].who = (IF k % 2 = 1 THEN "child" ELSE "actor")
           /\ k % 2 = 0 => IncrementNotes[k].at = IncrementNotes[k - 1].at + 1

\* C26: an event the parent handles while a child with autoForward runs is
\* seen by the child before the parent executes any of its actions for the
\* event; events sent one at a time are noted child, parent, child, parent;
\* and the event whose transition starts the child is not handed to it.
C26_ForwardedBeforeHandled ==
  /\ []Alternates
  /\ [][(actor.status = "running" /\ actor.mailbox # <<>>) =>
          \A c \in DOMAIN actor.children : ForwardedFirst(c)]_vars

\* START started the child without the child seeing it, three INCREMENTs
\* were seen by the child and then by the parent, and the child's done
\* event ended the parent
C26_Witness ==
  /\ M.key = "parent"
  /\ actor.status = "stopped"
  /\ actor.handled[1].name = <<"START">>
  /\ Noted("child", <<"START">>) = <<>>
  /\ Len(Noted("child", <<"INCREMENT">>)) = 3
  /\ Len(Noted("actor", "got")) = 3
  /\ Last(actor.handled).name = <<"done", "invoke", "child">>


(***************************************************************************)
(* The transition domain, the guards, changed, the raised events, the      *)
(* value and the configuration of the states a microstep produces          *)
(***************************************************************************)
EffectiveTargets(t) == getEffectiveTargetStates(t.target, ms.pre.historyValue)

\* an internal transition all of whose effective targets are descendants of
\* its source
InternalToDescendants(t) ==
  /\ t.internal
  /\ \A k \in 1..Len(EffectiveTargets(t)) :
        isDescendant(EffectiveTargets(t)[k], t.source)

\* n is a compound node, or the root, and a proper ancestor of every node
CommonCompoundAncestor(n, nodes) ==
  /\ n = root \/ Node(n).type = "compound"
  /\ \A k \in 1..Len(nodes) : isDescendant(nodes[k], n)

\* n is the least of the common compound ancestors of the nodes
LeastCommonCompoundAncestor(n, nodes) ==
  /\ CommonCompoundAncestor(n, nodes)
  /\ \A m \in Nodes : CommonCompoundAncestor(m, nodes) => (m = n \/ isDescendant(n, m))

DomainAsSpecified(t) ==
  IF InternalToDescendants(t)
    THEN /\ getTransitionDomain(t, ms.pre.historyValue) = t.source
         /\ ~InSeq(t.source,
                   computeExitSet(<<t>>, getConfiguration(ms.pre.configuration),
                                  ms.pre.historyValue))
    ELSE \A n \in Nodes :
            LeastCommonCompoundAncestor(n, Append(EffectiveTargets(t), t.source))
               => getTransitionDomain(t, ms.pre.historyValue) = n

\* C31: the domain of a targeted transition taken by a microstep is its
\* source, which is then not exited, when the transition is internal and
\* all its effective targets are descendants of the source, whatever the
\* type of the source; otherwise it is the least common compound ancestor
\* of the source and the effective targets.
C31_TransitionDomain ==
  ms.kind = "step" =>
     \A i \in 1..Len(ms.taken) :
        ms.taken[i].target # <<>> => DomainAsSpecified(ms.taken[i])


PassesBefore(t) == evaluateGuard(t.guard, ms.pre.context, ms.event, ms.pre)

\* the candidates of the source of t that come before t
CandidatesBefore(t) ==
  SubSeq(getCandidates(t.source, ms.event, M.scxml), 1,
         IndexIn(t, getCandidates(t.source, ms.event, M.scxml)) - 1)

\* t is the first candidate of its source whose guard passes in the state
\* before the microstep
FirstPassingBefore(t) ==
  /\ PassesBefore(t)
  /\ \A k \in 1..Len(CandidatesBefore(t)) : ~PassesBefore(CandidatesBefore(t)[k])

\* an atomic node with a candidate that passes in the state before the
\* microstep is the source of an enabled transition
AnsweredBefore(n) ==
  (\E k \in 1..Len(getCandidates(n, ms.event, M.scxml)) :
      PassesBefore(getCandidates(n, ms.event, M.scxml)[k]))
    => \E i \in 1..Len(ms.enabled) : ms.enabled[i].source = n

\* C32: the transitions enabled for a microstep, for an event or for the
\* null event, are chosen by guards evaluated on the context and the
\* configuration of the state before the microstep, in every region: each
\* enabled transition is the first candidate of its source that passes
\* there, and each active atomic node with a candidate that passes there has
\* its transition enabled, whatever other regions select or assign; the
\* eventless transitions that make a state transient pass in that state.
C32_GuardsSeeStateBefore ==
  /\ Selected =>
        /\ \A i \in 1..Len(ms.enabled) : FirstPassingBefore(ms.enabled[i])
        /\ \A j \in 1..Len(ms.pre.configuration) :
              isAtomicStateNode(ms.pre.configuration[j])
                 => AnsweredBefore(ms.pre.configuration[j])
  /\ pc # "init" =>
        \A i \in 1..Len(selectEventlessTransitions(st)) :
           evaluateGuard(selectEventlessTransitions(st)[i].guard, st.context,
                         NULL_EVENT, st)

\* the eventless microstep from {A: A2, B: B2}: both regions move, each by a
\* guard that holds before the microstep and no longer after it
C32_Witness ==
  /\ M.key = "regions"
  /\ ms.kind = "step"
  /\ ms.event = NULL_EVENT
  /\ Len(ms.enabled) = 2
  /\ InSeq(4, ms.pre.configuration) /\ InSeq(8, ms.pre.configuration)
  /\ InSeq(5, st.configuration) /\ InSeq(9, st.configuration)
  /\ \A i \in 1..2 : ~evaluateGuard(ms.enabled[i].guard, st.context, NULL_EVENT, st)


\* whether macrostep's loop from maybeNextState ends within fuel iterations
RECURSIVE LoopEnds(_, _, _, _)
LoopEndsIterated(shifted, own, fuel, r) ==
  LoopEnds(r.state, shifted \o r.state.internalQueue, r.same /\ own, fuel - 1)

LoopEndsShifted(raisedEvent, shifted, maybeNextState, own, fuel) ==
  LoopEndsIterated(shifted, own, fuel, MachineMicrostep(maybeNextState, raisedEvent))

LoopEnds(maybeNextState, q, own, fuel) ==
  IF q = <<>> \/ Done(maybeNextState) THEN TRUE
  ELSE IF fuel = 0 THEN FALSE
  ELSE LoopEndsShifted(Head(q), Tail(q),
                       IF own THEN [maybeNextState EXCEPT !.internalQueue = Tail(q)]
                       ELSE maybeNextState,
                       own, fuel)

MacroEndsFrom(r) == LoopEnds(r.state, r.state.internalQueue, TRUE, MaxIterations)

\* machine.transition(state, event) returns
MacroEnds(state, event) == MacroEndsFrom(MachineMicrostep(state, event))

\* the state a macrostep returns for `state` is changed when its value is
\* another or it has actions
ChangedWhenDifferent(state, nextState) ==
  (Unordered(nextState.value) # Unordered(state.value) \/ nextState.actions # <<>>)
     => nextState.changed = "true"

\* C33: the state machine.transition returns for an external event has
\* changed = true whenever its value differs from the value of the state it
\* was given or it has actions, also when the last microstep of the
\* macrostep enabled no transition; only the initial state has changed
\* undefined.
C33_ChangedWhenDifferent ==
  /\ (pc = "idle" /\ ~Done(st)) =>
        \A e \in M.events :
           MacroEnds(st, e) =>
              /\ ChangedWhenDifferent(st, Macro(st, e))
              /\ Macro(st, e).changed # "undefined"
  /\ (pc = "loop" /\ ms.kind = "init") => st.changed = "undefined"


NonNull(events) == SelectSeq(events, LAMBDA e : e # NULL_EVENT)

Raising(a) == a.type = "raise" \/ (a.type = "send" /\ a.to = INTERNAL)

\* the sequence a is b with some of its members left out
RECURSIVE IsSubsequence(_, _)
IsSubsequence(a, b) ==
  IF a = <<>> THEN TRUE
  ELSE IF b = <<>> THEN FALSE
  ELSE IF Head(a) = Head(b) THEN IsSubsequence(Tail(a), Tail(b))
  ELSE IsSubsequence(a, Tail(b))

\* one iteration of the loop takes the first event that waits and puts the
\* events its microstep raised behind the others, in the order raised
RaisedBehind ==
  /\ ms'.event = Head(queue)
  /\ NonNull(queue') = NonNull(Tail(queue)) \o NonNull(ms'.raisedQueue)

\* C34: every iteration of macrostep's loop processes the event raised
\* first among those that wait and appends the events its microstep raised,
\* so raised events are processed once each in the order raised; the events
\* raised by the actions of one microstep are queued in the order of the
\* actions; and no raise action or send to the machine itself is among the
\* actions of a state.
C34_RaisedFifo ==
  /\ [][(pc = "loop" /\ pc' = "loop") => RaisedBehind]_vars
  /\ [](Stepped =>
          IsSubsequence(NamesOf(SelectSeq(ms.raw, Raising)), ms.raisedQueue))
  /\ [](\A i \in 1..Len(st.actions) : ~Raising(st.actions[i]))


\* the nodes a state value names
RECURSIVE NodesNamed(_)
NodesNamed(v) ==
  (IF v.str # 0 THEN {v.str} ELSE {})
    \cup UNION {{v.map[i][1]} \cup NodesNamed(v.map[i][2]) : i \in 1..Len(v.map)}

ActiveChildren(n, configuration) ==
  SelectSeq(getChildren(n), LAMBDA c : InSeq(c, configuration))

\* the value of node n read off the configuration: for a compound node the
\* key of its single active child, or that child with its value; for a
\* parallel node the map over its active children
RECURSIVE ValueIn(_, _)
ValueIn(n, configuration) ==
  IF Node(n).type = "compound"
       /\ Len(ActiveChildren(n, configuration)) = 1
       /\ isAtomicStateNode(ActiveChildren(n, configuration)[1])
    THEN [str |-> ActiveChildren(n, configuration)[1], map |-> <<>>]
    ELSE [str |-> 0,
          map |-> [i \in 1..Len(ActiveChildren(n, configuration)) |->
                     <<ActiveChildren(n, configuration)[i],
                       ValueIn(ActiveChildren(n, configuration)[i], configuration)>>]]

\* C35: in every state a microstep produced, the value is the value read
\* off the state's configuration, and the nodes the value names are, with
\* the root, exactly the nodes of the configuration.
C35_ValueOfConfiguration ==
  Stepped =>
     /\ Unordered(st.value) = Unordered(ValueIn(root, st.configuration))
     /\ NodesNamed(st.value) \cup {root} = Range(st.configuration)


\* the shape of a configuration as far as compound, history, atomic and
\* final nodes go
WellFormed(configuration) ==
  \A i \in 1..Len(configuration) :
     /\ Node(configuration[i]).type = "compound"
           => Len(ActiveChildren(configuration[i], configuration)) = 1
     /\ Node(configuration[i]).type # "history"
     /\ Node(configuration[i]).type \in {"atomic", "final"}
           => ActiveChildren(configuration[i], configuration) = <<>>

\* C37: in every state the machine reaches, each active compound node has
\* exactly one active child, no history node is in the configuration, and
\* atomic and final nodes have no active children.
C37_ConfigurationWellFormed == pc # "init" => WellFormed(st.configuration)


\* the nodes a microstep entered by default entry
DefaultEntered == SelectSeq(ms.entrySet, LAMBDA n : InSeq(n, ms.defaultEntry))

\* C38: the actions of the initial transition of every compound state a
\* microstep enters by default entry are in the microstep's action list
\* once each, however many states the microstep enters by default entry.
C38_InitialActionsOnce ==
  Stepped =>
     \A i \in 1..Len(DefaultEntered) :
        \A j \in 1..Len(Node(DefaultEntered[i]).initial.actions) :
           Count(ms.raw, Node(DefaultEntered[i]).initial.actions[j])
             = Count(DefaultEntryActions(DefaultEntered),
                     Node(DefaultEntered[i]).initial.actions[j])


\* the nodes a microstep enters although they are active before it and it
\* does not exit them
EnteredWhileActive ==
  SelectSeq(ms.entrySet,
            LAMBDA n : InSeq(n, ms.pre.configuration) /\ ~InSeq(n, ms.exitSet))

\* C39: a microstep enters only nodes that are inactive once its exit phase
\* is done: no node of its entry set is in the configuration before the
\* microstep without being in its exit set, so the entry actions and the
\* invoke actions it issues are those of nodes that were not active.
C39_EntersInactiveOnly ==
  ms.kind = "step" => EnteredWhileActive = <<>>


\* the invocation ids declared by the nodes of a configuration
InvocationsOf(configuration) == Range(InvocationsIn(configuration))

\* the nodes a microstep exits and enters again
Reentered == SelectSeq(ms.entrySet, LAMBDA n : InSeq(n, ms.exitSet))

MaxStates == 3

ReactAction(name, exec, effect) == [name |-> name, exec |-> exec, effect |-> effect]

\* exec is a function tagged with __effect
asEffect(name) == ReactAction(name, "function", "effect")

asLayoutEffect(name) == ReactAction(name, "function", "layoutEffect")

\* the action lists of the states the machines of the tests produce: no
\* action, a function that is not tagged, one effect, and the entry list of
\* 'layout effects should happen after normal actions'
ActionLists ==
  { <<>>,
    <<ReactAction("non-effect", "function", "none")>>,
    <<asEffect("count")>>,
    << asEffect("effect"), ReactAction("non-effect", "function", "none"),
       asLayoutEffect("layout effect"), asEffect("string effect"),
       asLayoutEffect("string layout effect"), ReactAction("log", "none", "none") >> }

\* typeof action.exec === 'function' && '__effect' in action.exec
IsReactEffectAction(action) == action.exec = "function" /\ action.effect # "none"

\* action.exec.__effect === ReactEffectType.Effect
IsEffect(action) == action.effect = "effect"

IsLayoutEffect(action) == ~IsEffect(action)

ActionStateTuples(actions, currentState) ==
  [i \in 1..Len(actions) |-> <<actions[i], currentState>>]

\* ref.current.push(...actions.map((action) => [action, currentState]))
PushedTuples(ref, actions, currentState) == ref \o ActionStateTuples(actions, currentState)

\* the listener given to service.subscribe
Subscriber(h, currentState) ==
  IF currentState.actions = <<>> THEN h
  ELSE [h EXCEPT
          !.effectActions =
             PushedTuples(@, SelectSeq(SelectSeq(currentState.actions, IsReactEffectAction),
                                 IsEffect), currentState),
          !.layoutEffectActions =
             PushedTuples(@, SelectSeq(SelectSeq(currentState.actions, IsReactEffectAction),
                                 IsLayoutEffect), currentState)]

\* executeEffect(action, state): the action's exec is called with the state
executeEffect(h, tuple) ==
  [h EXCEPT !.executed = Append(@, tuple), !.ran = Append(@, tuple[1].effect)]

HookInit ==
  /\ mach = Machines[1]
  /\ pc = "off"
  /\ st = StateFrom(0)
  /\ queue = <<>>
  /\ alias = FALSE
  /\ ms = NoStep
  /\ macroActions = <<>>
  /\ build = NotBuilding
  /\ actor = NotActing
  /\ hook = [NotRendered EXCEPT !.phase = "rendered"]

Elsewhere == UNCHANGED <<mach, pc, st, queue, alias, ms, macroActions, build, actor>>

\* the first commit: the layout effect with no dependencies subscribes, and
\* the layout effect that flushes is next
Mount ==
  /\ hook.phase = "rendered"
  /\ hook' = [hook EXCEPT !.subscribed = TRUE, !.phase = "layout"]
  /\ Elsewhere

\* the service emits a state to its subscribers
Emit(actions) ==
  /\ hook.subscribed
  /\ Len(hook.emitted) < MaxStates
  /\ hook' = Subscriber([hook EXCEPT !.emitted =
                            Append(@, [id |-> Len(hook.emitted) + 1,
                                       actions |-> actions])],
                        [id |-> Len(hook.emitted) + 1, actions |-> actions])
  /\ Elsewhere

\* one turn of the while loop of the layout effect
LayoutEffectStep ==
  /\ hook.phase = "layout"
  /\ hook.layoutEffectActions # <<>>
  /\ hook' = executeEffect([hook EXCEPT !.layoutEffectActions = Tail(@)],
                           Head(hook.layoutEffectActions))
  /\ Elsewhere

\* the while loop of the layout effect ends; the effect is next
LayoutEffectEnd ==
  /\ hook.phase = "layout"
  /\ hook.layoutEffectActions = <<>>
  /\ hook' = [hook EXCEPT !.phase = "effect"]
  /\ Elsewhere

\* one turn of the while loop of the effect
EffectStep ==
  /\ hook.phase = "effect"
  /\ hook.effectActions # <<>>
  /\ hook' = executeEffect([hook EXCEPT !.effectActions = Tail(@)],
                           Head(hook.effectActions))
  /\ Elsewhere

\* the while loop of the effect ends, and the commit with it
EffectEnd ==
  /\ hook.phase = "effect"
  /\ hook.effectActions = <<>>
  /\ hook' = [hook EXCEPT !.phase = "idle"]
  /\ Elsewhere

\* the component renders again: the next commit begins with the layout
\* effect that flushes
Rerender ==
  /\ hook.phase = "idle"
  /\ hook' = [hook EXCEPT !.phase = "layout", !.ran = <<>>]
  /\ Elsewhere

\* the component unmounts: the cleanup of the first layout effect
\* unsubscribes
Unmount ==
  /\ hook.phase = "idle"
  /\ hook' = [hook EXCEPT !.phase = "unmounted", !.subscribed = FALSE]
  /\ Elsewhere

HookNext ==
  \/ Mount
  \/ \E actions \in ActionLists : Emit(actions)
  \/ LayoutEffectStep
  \/ LayoutEffectEnd
  \/ EffectStep
  \/ EffectEnd
  \/ Rerender
  \/ Unmount

\* a commit runs its effects to the end, and a component that is mounted
\* commits again
HookSpec ==
  /\ HookInit
  /\ [][HookNext]_vars
  /\ WF_vars(Mount)
  /\ WF_vars(LayoutEffectStep)
  /\ WF_vars(LayoutEffectEnd)
  /\ WF_vars(EffectStep)
  /\ WF_vars(EffectEnd)
  /\ WF_vars(Rerender)

\* the tagged actions of one kind in the states emitted, with their states
EmittedOf(kind) ==
  Flatten([i \in 1..Len(hook.emitted) |->
             ActionStateTuples(
                SelectSeq(hook.emitted[i].actions,
                          LAMBDA a : a.exec = "function" /\ a.effect = kind),
                hook.emitted[i])])

\* the calls of executeEffect for the actions of one kind
ExecutedOf(kind) == SelectSeq(hook.executed, LAMBDA t : t[1].effect = kind)

\* every emitted action of the kind was executed once or waits in its queue,
\* in the order of emission and with its state
OnceInOrder ==
  /\ ExecutedOf("effect") \o hook.effectActions = EmittedOf("effect")
  /\ ExecutedOf("layoutEffect") \o hook.layoutEffectActions = EmittedOf("layoutEffect")

\* in a commit no layout effect action runs after an effect action
LayoutBeforeEffect ==
  \A i, j \in 1..Len(hook.ran) :
     (i < j /\ hook.ran[i] = "effect") => hook.ran[j] = "effect"

\* the effect of a commit begins with the layout queue flushed
LayoutFlushedFirst ==
  (hook.phase = "layout" /\ hook'.phase = "effect") => hook.layoutEffectActions = <<>>

Waiting == hook.effectActions # <<>> \/ hook.layoutEffectActions # <<>>

\* C36: every effect or layout effect action of a state emitted to the
\* subscriber of the hook is executed exactly once, with the state it was
\* emitted in and in the order of emission within its queue; in a commit
\* the layout effect actions run before the effect actions; and an action
\* that waits in a queue is executed in the end.
C36_EffectsRunOnce ==
  /\ []OnceInOrder
  /\ []LayoutBeforeEffect
  /\ [][LayoutFlushedFirst]_vars
  /\ (Waiting ~> ~Waiting)


\* no action is executed twice, out of order or with another state, and no
\* layout effect action after an effect action of the same commit
RunAtMostOnceInOrder ==
  /\ []OnceInOrder
  /\ []LayoutBeforeEffect
  /\ [][LayoutFlushedFirst]_vars

====
